---- MODULE Spec2Model ----
(***************************************************************************)
(* Model of the shared coordination layer of the archiver workers:         *)
(*   - worker_common.http.ResilientClient.request  (bounded retry)         *)
(*   - worker_common.client.ProcessorClient        (claim/complete/fail)   *)
(*   - worker_common.loop.drain_jobs / run_sse_loop (consumption loop)     *)
(* The backend queue and the network are the environment: every request    *)
(* outcome the code can observe is a nondeterministic choice.              *)
(***************************************************************************)
EXTENDS Integers, Sequences, FiniteSets, TLC

VARIABLES
    rc,             \* one ResilientClient.request call: config, loop position, locals
    job_kinds,      \* run_sse_loop / drain_jobs argument: the caller's kind list
    poll_interval,  \* run_sse_loop argument
    wk,             \* per worker process: position and locals of run_sse_loop/drain_jobs
    jobs,           \* the backend queue: job id -> kind and status
    hist,           \* per job: the requests and handler calls made for it (observation)
    cl,             \* one ProcessorClient.claim_job call: argument, response, result
    bo,             \* the reconnect waits of worker "A" since its last connection (observation)
    known_statuses, \* scraper: the cached map sourceRecordId -> status
    records,        \* the backend's ingest records: record id -> source id and status
    sr,             \* the scraper process: position and locals of main/run_scrape/ingest_record
    pt,             \* the ProgressTracker of the process: _path, _data, _dirty, position in save()
    fs,             \* the checkpoint file and its .tmp sibling
    pr,             \* probe_for_hidden: position and locals
    en              \* enumerate_all: position and locals

vars == <<rc, job_kinds, poll_interval, wk, jobs, hist, cl, bo, known_statuses, records, sr,
          pt, fs, pr, en>>
loopVars == <<job_kinds, poll_interval, wk, jobs, hist>>
\* the components that the worker loop and the backend queue leave alone
scrapeVars == <<known_statuses, records, sr>>
trackVars == <<pt, fs, pr, en>>
others == <<cl, known_statuses, records, sr, pt, fs, pr, en>>

Min(a, b) == IF a <= b THEN a ELSE b

(***************************************************************************)
(* Bounds of the model.                                                    *)
(***************************************************************************)
MaxRetries == 3      \* max_retries ranges over 0..MaxRetries
MaxJobs == 2         \* jobs the backend creates in one behaviour
MaxSharedJobs == 1   \* jobs the backend creates when two workers compete
ShortErr == 7        \* length of a short error text
MaxWaits == 5        \* consecutive reconnect waits that are told apart
MaxRecords == 4      \* records the backend creates in one behaviour
MaxRestarts == 2     \* restarts of the scraper process in one behaviour
MaxXids == 51        \* ids marked probed, in order, in one behaviour
MaxIngested == 1     \* ids marked ingested in the same behaviour
MaxZeroScan == 3     \* zero-scan records of the fond whose scrape is resumed
MaxProbeErrors == 1  \* permalink pages that fail to load in one probe_for_hidden
MaxMarks == 2        \* new marks in one behaviour when the calls come in any order

(***************************************************************************)
(* Program constants.                                                      *)
(***************************************************************************)
DEFAULT_MAX_RETRIES == 4
FailMsgLimit == 500  \* str(e)[:500]
SleepCap == 5        \* time.sleep(min(reconnect_delay, 5))
DefaultPollInterval == 10
WaitMaxRetries == 30
_AUTOSAVE_INTERVAL == 50

DEFAULT_RETRY_BACKOFF == <<1, 3, 10, 30>>

(***************************************************************************)
(* worker_common.http.ResilientClient                                      *)
(***************************************************************************)
None == [kind |-> "None"]

\* What one self._client.request(...) call can produce: a response with a
\* status code, or a transport error (connect failure, timeout).
Statuses == {200, 201, 400, 404, 429, 500, 503}
Outcomes ==
    [kind : {"response"}, status : Statuses] \cup {[kind |-> "transport", status |-> 0]}

\* resp.raise_for_status(): an HTTPStatusError for 4xx and 5xx responses
\* (redirects are followed by the client and do not reach the caller).
raise_for_status(status) == status >= 400

\* (mutation of ClientErrorNoRetry: the lower bound excludes 400)
ClientErrorNoRetry_strict(status) == 400 < status /\ status < 500 /\ status # 429

\* except httpx.HTTPStatusError: "client error -- no retry"
ClientErrorNoRetry(status) == 400 <= status /\ status < 500 /\ status # 429

HTTPStatusError(status, n) == [kind |-> "HTTPStatusError", status |-> status, attempt |-> n]
TransportError(n) == [kind |-> "TransportError", status |-> 0, attempt |-> n]
\* `raise None` is a TypeError in Python
TypeError == [kind |-> "TypeError", status |-> 0, attempt |-> 0]

\* __init__: retry_backoff or list(DEFAULT_RETRY_BACKOFF)
InitBackoff(retry_backoff) ==
    IF retry_backoff = <<>> THEN DEFAULT_RETRY_BACKOFF ELSE retry_backoff

\* (mutation of _backoff: the index is the attempt number, not attempt - 1)
_backoff_shifted(attempt) ==
    LET idx == Min(attempt, Len(rc.retry_backoff) - 1)
    IN  rc.retry_backoff[idx + 1]

_backoff(attempt) ==
    LET idx == Min(attempt - 1, Len(rc.retry_backoff) - 1)
    IN  rc.retry_backoff[idx + 1]

\* the sleeps `time.sleep(self._delay)` at the head of an attempt
DelaySleep == IF rc.delay > 0 THEN <<[why |-> "delay", dur |-> rc.delay]>> ELSE <<>>

\* `if attempt < self._max_retries: ... time.sleep(wait)`
BackoffSleep(attempt) ==
    IF attempt < rc.max_retries
    THEN <<[why |-> "backoff", dur |-> _backoff(attempt)]>>
    ELSE <<>>

RetryBackoffs == {<<>>, <<1, 3, 10, 30>>, <<2>>, <<1, 2>>}
Delays == {0, 2}

HttpIdle ==
    [max_retries |-> 0, delay |-> 0, retry_backoff |-> DEFAULT_RETRY_BACKOFF,
     pc |-> "idle", attempt |-> 0, last_exc |-> None, sleeps |-> <<>>,
     responses |-> <<>>, result |-> 0, raised |-> None]

HttpInit ==
    \E m \in 0..MaxRetries, d \in Delays, b \in RetryBackoffs :
        rc = [HttpIdle EXCEPT !.max_retries = m, !.delay = d,
                              !.retry_backoff = InitBackoff(b), !.pc = "loop"]

\* (mutation of InRange: one iteration too many)
InRange_inclusive == rc.attempt <= rc.max_retries

\* `for attempt in range(1, self._max_retries + 1)` has a next iteration
InRange == rc.attempt < rc.max_retries

\* (mutation of ExceptTransportError: last_exc is not assigned)
ExceptTransportError_unassigned(r, n) ==
    [r EXCEPT !.sleeps = @ \o BackoffSleep(n)]

\* except httpx.TransportError as exc:
ExceptTransportError(r, n) ==
    [r EXCEPT !.last_exc = TransportError(n),
              !.sleeps = @ \o BackoffSleep(n)]

\* except httpx.HTTPStatusError as exc:
ExceptHTTPStatusError(r, status, n) ==
    IF ClientErrorNoRetry(status)
    THEN [r EXCEPT !.last_exc = HTTPStatusError(status, n),
                   !.pc = "raised",
                   !.raised = HTTPStatusError(status, n)]
    ELSE [r EXCEPT !.last_exc = HTTPStatusError(status, n),
                   !.sleeps = @ \o BackoffSleep(n)]

\* One iteration of `for attempt in range(1, self._max_retries + 1)`.
request_attempt(o) ==
    /\ rc.pc = "loop"
    /\ InRange
    /\ LET n == rc.attempt + 1
           base == [rc EXCEPT !.attempt = n,
                              !.responses = Append(@, o),
                              !.sleeps = @ \o DelaySleep]
       IN  IF o.kind = "transport"
           THEN rc' = ExceptTransportError(base, n)
           ELSE IF ~raise_for_status(o.status)
           THEN rc' = [base EXCEPT !.pc = "returned", !.result = o.status]
           ELSE rc' = ExceptHTTPStatusError(base, o.status, n)

\* The loop is exhausted: `raise last_exc`.
request_exhausted ==
    /\ rc.pc = "loop"
    /\ ~InRange
    /\ rc' = [rc EXCEPT !.pc = "raised",
                        !.raised = IF rc.last_exc = None THEN TypeError ELSE rc.last_exc]

request ==
    \/ \E o \in Outcomes : request_attempt(o)
    \/ request_exhausted

(***************************************************************************)
(* The backend job queue (the environment of the Job Client).              *)
(***************************************************************************)
JobIds == 1..MaxJobs
Workers == {"A", "B"}

AllKinds == {"translate_page", "translate_record"}
KindLists == {<<"translate_page">>, <<"translate_page", "translate_record">>}
PollIntervals == {DefaultPollInterval}
ErrLens == {ShortErr, FailMsgLimit + 1}

NoJob == [kind |-> "", status |-> "none"]
NoHist == [calls |-> 0, raised |-> 0, completes |-> 0, fails |-> 0, by |-> {}]

Pending(k) == {j \in JobIds : jobs[j].status = "pending" /\ jobs[j].kind = k}
FirstPending(k) == CHOOSE j \in Pending(k) : \A o \in Pending(k) : j <= o

\* POST claim: hands one pending job of the kind to the caller, atomically.
BackendClaim(j) == [jobs EXCEPT ![j].status = "claimed"]
\* POST complete/{id}, POST fail/{id}: accepted for a claimed job only.
BackendTerminal(j, status) ==
    IF jobs[j].status = "claimed" THEN [jobs EXCEPT ![j].status = status] ELSE jobs

kind_set == {job_kinds[n] : n \in 1..Len(job_kinds)}

\* The backend creates a job of one of the kinds (ids in order of creation).
Enqueue(kinds, limit) ==
    /\ \E j \in 1..limit :
          /\ jobs[j].status = "none"
          /\ \A o \in JobIds : o < j => jobs[o].status # "none"
          /\ \E k \in kinds : jobs' = [jobs EXCEPT ![j] = [kind |-> k, status |-> "pending"]]
    /\ UNCHANGED <<others, rc, job_kinds, poll_interval, wk, hist>>

(***************************************************************************)
(* worker_common.client.ProcessorClient                                    *)
(***************************************************************************)
\* self._client = httpx.Client(...): a post() is one HTTP attempt, and
\* raise_for_status() raises on its response at once.
ClientAttempts == 1

\* A request of the Job Client raised to its caller: the HTTP attempts made.
Surfaced(w) == [w EXCEPT !.surfaced = ClientAttempts]

\* `surfaced` and `sent` observe the step just taken only.
Fresh(w) == [w EXCEPT !.surfaced = 0, !.sent = 0]

\* What the POST /api/processor/jobs/claim can bring back: a transport
\* error, or a response with a status and a body (a job object or nothing).
ClaimStatuses == {200, 204, 400, 404, 429, 500, 503}
NoBody == [id |-> 0, kind |-> ""]
JobBody(j) == [id |-> j, kind |-> jobs[j].kind]

\* exceptions of a single post() as claim_job's caller sees them
JSONDecodeError == [kind |-> "JSONDecodeError", status |-> 0, attempt |-> 1]

\* (mutation of IsNoContent: a 404 is read as "no job" too)
IsNoContent_lenient(status) == status \in {204, 404}

\* `if resp.status_code == 204`
IsNoContent(status) == status = 204

\* resp.json(): the parsed body; an empty body does not parse
json(body) == IF body = NoBody THEN [ret |-> None, exc |-> JSONDecodeError]
              ELSE [ret |-> body, exc |-> None]

\* ProcessorClient.claim_job on a given outcome of its post(): what it
\* returns and what it raises.
claim_job(o) ==
    IF o.kind = "transport" THEN [ret |-> None, exc |-> TransportError(1)]
    ELSE IF IsNoContent(o.status) THEN [ret |-> None, exc |-> None]
    ELSE IF raise_for_status(o.status)
    THEN [ret |-> None, exc |-> HTTPStatusError(o.status, 1)]
    ELSE json(o.body)

ClientIdle ==
    [pc |-> "idle", arg |-> "", resp |-> [kind |-> "none", status |-> 0, body |-> NoBody],
     ret |-> None, exc |-> None]

\* The backend answers a claim for kind k as its queue says: 200 with the
\* first pending job of the kind, which becomes claimed, or 204.
ClaimServed(k) ==
    IF Pending(k) # {}
    THEN /\ jobs' = BackendClaim(FirstPending(k))
         /\ cl' = LET o == [kind |-> "response", status |-> 200,
                            body |-> JobBody(FirstPending(k))]
                  IN  [pc |-> "done", arg |-> k, resp |-> o,
                       ret |-> claim_job(o).ret, exc |-> claim_job(o).exc]
    ELSE /\ jobs' = jobs
         /\ cl' = LET o == [kind |-> "response", status |-> 204, body |-> NoBody]
                  IN  [pc |-> "done", arg |-> k, resp |-> o,
                       ret |-> claim_job(o).ret, exc |-> claim_job(o).exc]

\* The claim does not get through: an error status, a success status with
\* an empty body, or no response at all; the queue is left alone.
ClaimFailed(k) ==
    /\ jobs' = jobs
    /\ \E o \in [kind : {"response"}, status : ClaimStatuses \ {204}, body : {NoBody}]
               \cup {[kind |-> "transport", status |-> 0, body |-> NoBody]} :
          cl' = [pc |-> "done", arg |-> k, resp |-> o,
                 ret |-> claim_job(o).ret, exc |-> claim_job(o).exc]

\* One call of client.claim_job(kind).
claim_job_call ==
    /\ \E k \in AllKinds : ClaimServed(k) \/ ClaimFailed(k)
    /\ UNCHANGED <<rc, job_kinds, poll_interval, wk, hist, scrapeVars, trackVars>>

(***************************************************************************)
(* worker_common.loop: drain_jobs and run_sse_loop, one process per worker *)
(***************************************************************************)
NoEvent == [event |-> "none", kind |-> ""]
NoPass == [claims |-> 0, jobs |-> 0, calls |-> 0, ok |-> 0]

WorkerInit ==
    [pc |-> "drain", site |-> "top", kidx |-> 1, job |-> 0, count |-> 0, err |-> 0,
     jobs_processed |-> 0, reconnect_delay |-> 1, event |-> NoEvent,
     exit |-> "none", logged |-> FALSE, slept |-> 0, cause |-> "none",
     pass |-> NoPass, ret |-> 0, returned |-> FALSE, surfaced |-> 0, sent |-> 0,
     read_timeout |-> 0, attempt |-> 0]


\* str(e)[:500]
Truncate(len) == Min(len, FailMsgLimit)

\* The process has left run_sse_loop with an exception: its locals are gone;
\* `logged` tells whether "Shutting down (processed %d jobs)" was logged.
Exited(w, exc, logged) ==
    [WorkerInit EXCEPT !.pc = "exited", !.exit = exc, !.logged = logged,
                       !.site = w.site, !.cause = w.pc,
                       !.jobs_processed = w.jobs_processed,
                       !.surfaced = w.surfaced]

\* An exception leaves drain_jobs and reaches run_sse_loop at the call site:
\*   "top"    line 84, outside the try: it leaves run_sse_loop;
\*   "event"  line 97, inside the try: `except KeyboardInterrupt` logs and
\*            re-raises, `except Exception` goes to the polling fallback;
\*   "except" line 103, inside the except handler: it leaves run_sse_loop.
Raise(w, exc) ==
    IF w.site = "event" /\ exc = "Exception"
    THEN [w EXCEPT !.pc = "drain", !.site = "except", !.cause = "drain_error",
                   !.job = 0, !.err = 0, !.read_timeout = 0]
    ELSE Exited(w, exc, w.site = "event" /\ exc = "KeyboardInterrupt")

\* drain_jobs returns count to its call site in run_sse_loop.
Return(w) ==
    LET r == [w EXCEPT !.ret = w.count, !.returned = TRUE,
                       !.jobs_processed = @ + w.count]
    IN  CASE w.site = "top"    -> [r EXCEPT !.pc = "subscribe"]
          [] w.site = "event"  -> [r EXCEPT !.pc = "wait"]
          [] w.site = "except" -> [r EXCEPT !.pc = "sleep"]

\* The locals of the last drain_jobs call are gone once run_sse_loop goes on.
Clear(w) ==
    [Fresh(w) EXCEPT !.count = 0, !.kidx = 1, !.pass = NoPass, !.ret = 0,
                     !.returned = FALSE]

\* drain_jobs entry: count = 0, first kind.
drain_jobs(i) ==
    LET w == Clear(wk[i]) IN
    /\ w.pc = "drain"
    /\ wk' = [wk EXCEPT ![i] =
                IF Len(job_kinds) = 0
                THEN Return([w EXCEPT !.slept = 0, !.event = NoEvent])
                ELSE [w EXCEPT !.pc = "claim", !.slept = 0, !.event = NoEvent]]
    /\ UNCHANGED <<others, rc, job_kinds, poll_interval, jobs, hist>>

\* (mutation of NextClaim: a failed job is handed to the handler again)
NextClaim_retry(w) ==
    IF w.pc = "fail"
    THEN [w EXCEPT !.pc = "work", !.err = 0]
    ELSE [w EXCEPT !.pc = "claim", !.job = 0, !.err = 0]

\* (mutation of NextClaim: after a job the pass moves on to the next kind)
NextClaim_rotate(w) ==
    [w EXCEPT !.pc = "claim", !.job = 0, !.err = 0, !.kidx = (@ % Len(job_kinds)) + 1]

\* After the handling of a job: back to `job = client.claim_job(kind)`.
NextClaim(w) == [w EXCEPT !.pc = "claim", !.job = 0, !.err = 0]

\* (mutation of HandlerRaised: no try/except around process_fn)
HandlerRaised_propagates(w, len) == Raise(w, "Exception")

\* (mutation of HandlerRaised: the job is counted although the handler raised)
HandlerRaised_counted(w, len) == [w EXCEPT !.pc = "fail", !.err = len, !.count = @ + 1]

\* except Exception as e: (drain_jobs line 52)
HandlerRaised(w, len) == [w EXCEPT !.pc = "fail", !.err = len]

\* client.claim_job(kind) returns a job.
claim_job_some(i) ==
    LET w == Fresh(wk[i])
        k == job_kinds[w.kidx]
    IN  /\ w.pc = "claim"
        /\ Pending(k) # {}
        /\ LET j == FirstPending(k) IN
             /\ jobs' = BackendClaim(j)
             /\ hist' = [hist EXCEPT ![j].by = @ \cup {i}]
             /\ wk' = [wk EXCEPT ![i] =
                         [w EXCEPT !.pc = "work", !.job = j,
                                   !.pass.claims = @ + 1, !.pass.jobs = @ + 1]]
        /\ UNCHANGED <<others, rc, job_kinds, poll_interval>>

\* client.claim_job(kind) returns None (204): next kind, or return count.
claim_job_none(i) ==
    LET w == Fresh(wk[i])
        k == job_kinds[w.kidx]
        c == [w EXCEPT !.pass.claims = @ + 1]
    IN  /\ w.pc = "claim"
        /\ Pending(k) = {}
        /\ wk' = [wk EXCEPT ![i] =
                    IF w.kidx < Len(job_kinds)
                    THEN [c EXCEPT !.kidx = @ + 1]
                    ELSE Return(c)]
        /\ UNCHANGED <<others, rc, job_kinds, poll_interval, jobs, hist>>

\* client.claim_job(kind) raises (transport error or raise_for_status).
claim_job_raises(i) ==
    LET w == Fresh(wk[i]) IN
    /\ w.pc = "claim"
    /\ wk' = [wk EXCEPT ![i] = Raise(Surfaced(w), "Exception")]
    /\ UNCHANGED <<others, rc, job_kinds, poll_interval, jobs, hist>>

\* process_fn(job), first part: the work of the handler (embed_worker
\* process_one up to its complete_job call) returns or raises.
process_fn_work(i) ==
    LET w == Fresh(wk[i]) IN
    /\ w.pc = "work"
    /\ \/ /\ hist' = [hist EXCEPT ![w.job].calls = @ + 1]
          /\ wk' = [wk EXCEPT ![i] = [w EXCEPT !.pc = "complete", !.pass.calls = @ + 1]]
       \/ /\ hist' = [hist EXCEPT ![w.job].calls = @ + 1, ![w.job].raised = @ + 1]
          /\ \E len \in ErrLens :
               wk' = [wk EXCEPT ![i] =
                        HandlerRaised([w EXCEPT !.pass.calls = @ + 1], len)]
    /\ UNCHANGED <<others, rc, job_kinds, poll_interval, jobs>>

\* process_fn(job), second part: client.complete_job(job_id) inside the
\* handler.  On success the handler returns and drain_jobs counts the job;
\* when the request raises, the handler raises with it.
complete_job(i) ==
    LET w == Fresh(wk[i]) IN
    /\ w.pc = "complete"
    /\ \/ /\ jobs[w.job].status = "claimed"
          /\ hist' = [hist EXCEPT ![w.job].completes = @ + 1]
          /\ jobs' = BackendTerminal(w.job, "completed")
          /\ wk' = [wk EXCEPT ![i] =
                      NextClaim([w EXCEPT !.count = @ + 1, !.pass.ok = @ + 1])]
       \/ /\ hist' = [hist EXCEPT ![w.job].completes = @ + 1, ![w.job].raised = @ + 1]
          /\ \E applied \in BOOLEAN :
                jobs' = IF applied THEN BackendTerminal(w.job, "completed") ELSE jobs
          /\ \E len \in ErrLens :
                wk' = [wk EXCEPT ![i] =
                         HandlerRaised(Surfaced(w), len)]
    /\ UNCHANGED <<others, rc, job_kinds, poll_interval>>

\* the message handed to fail_job: str(e)[:500]
Sent(w) == [w EXCEPT !.sent = Truncate(w.err)]

\* client.fail_job(job["id"], str(e)[:500]); an error of the request is
\* caught and logged (drain_jobs lines 54-57).
fail_job(i) ==
    LET w == Fresh(wk[i]) IN
    /\ w.pc = "fail"
    /\ hist' = [hist EXCEPT ![w.job].fails = @ + 1]
    /\ \/ /\ jobs[w.job].status = "claimed"
          /\ jobs' = BackendTerminal(w.job, "failed")
          /\ wk' = [wk EXCEPT ![i] = NextClaim(Sent(w))]
       \/ /\ \E applied \in BOOLEAN :
                jobs' = IF applied THEN BackendTerminal(w.job, "failed") ELSE jobs
          /\ wk' = [wk EXCEPT ![i] = NextClaim(Surfaced(Sent(w)))]
    /\ UNCHANGED <<others, rc, job_kinds, poll_interval>>

\* (mutation of ReadTimeout: job_events is called without read_timeout and
\* uses its default of 30.0)
ReadTimeout_default(interval) == 30

\* client.job_events(read_timeout=float(poll_interval), ...): the read
\* timeout of the connection, httpx.Timeout(read=read_timeout)
ReadTimeout(interval) == interval

\* (mutation of Connected: the backoff is not reset)
Connected_keeps(w) ==
    [w EXCEPT !.pc = "wait", !.event = NoEvent, !.read_timeout = ReadTimeout(poll_interval)]

\* the with block is entered: reconnect_delay = 1
Connected(w) ==
    [w EXCEPT !.pc = "wait", !.reconnect_delay = 1, !.event = NoEvent,
              !.read_timeout = ReadTimeout(poll_interval)]

\* with client.job_events(...) as events: the connection is opened
\* (reconnect_delay = 1) or the attempt raises (except Exception).
job_events(i) ==
    LET w == Clear(wk[i]) IN
    /\ w.pc = "subscribe"
    /\ \/ wk' = [wk EXCEPT ![i] = Connected(w)]
       \/ wk' = [wk EXCEPT ![i] = [w EXCEPT !.pc = "drain", !.site = "except",
                                            !.cause = "failure", !.event = NoEvent]]
    /\ UNCHANGED <<others, rc, job_kinds, poll_interval, jobs, hist>>

\* (mutation of Tracked: every "job" event starts a drain pass)
Tracked_anyjob(e, k) == e = "job"

\* if event.event == "job": ... if kind in kind_set:
Tracked(e, k) == e = "job" /\ k \in kind_set

\* for event in events: an event is read.
next_event(i) ==
    LET w == Clear(wk[i]) IN
    /\ w.pc = "wait"
    /\ \E e \in {"job", "ping"}, k \in AllKinds \cup {""} :
          /\ e = "ping" => k = ""
          /\ wk' = [wk EXCEPT ![i] =
                      IF Tracked(e, k)
                      THEN [w EXCEPT !.event = [event |-> e, kind |-> k],
                                     !.pc = "drain", !.site = "event"]
                      ELSE [w EXCEPT !.event = [event |-> e, kind |-> k]]]
    /\ UNCHANGED <<others, rc, job_kinds, poll_interval, jobs, hist>>

\* for event in events: the read raises (httpx.ReadTimeout after
\* read_timeout without data: "timeout"; a network failure, or json.loads
\* raising on the data of a "job" event: "failure"): except Exception.
events_raise(i) ==
    LET w == Clear(wk[i]) IN
    /\ w.pc = "wait"
    /\ \E c \in {"timeout", "failure"} :
          wk' = [wk EXCEPT ![i] = [w EXCEPT !.pc = "drain", !.site = "except",
                                            !.cause = c, !.event = NoEvent,
                                            !.read_timeout = 0]]
    /\ UNCHANGED <<others, rc, job_kinds, poll_interval, jobs, hist>>

\* for event in events: the stream ends; the with block is left and the
\* while loop starts over.
events_end(i) ==
    LET w == Clear(wk[i]) IN
    /\ w.pc = "wait"
    /\ wk' = [wk EXCEPT ![i] = [w EXCEPT !.pc = "drain", !.site = "top",
                                          !.event = NoEvent, !.read_timeout = 0]]
    /\ UNCHANGED <<others, rc, job_kinds, poll_interval, jobs, hist>>

\* time.sleep(min(reconnect_delay, 5));
\* reconnect_delay = min(reconnect_delay * 2, poll_interval)
reconnect_sleep(i) ==
    LET w == Clear(wk[i]) IN
    /\ w.pc = "sleep"
    /\ wk' = [wk EXCEPT ![i] =
                [w EXCEPT !.slept = Min(w.reconnect_delay, SleepCap),
                          !.reconnect_delay = Min(w.reconnect_delay * 2, poll_interval),
                          !.pc = "drain", !.site = "top", !.cause = "none"]]
    /\ UNCHANGED <<others, rc, job_kinds, poll_interval, jobs, hist>>

\* KeyboardInterrupt arrives, wherever the process is.  Only the try block
\* (lines 86-97) has `except KeyboardInterrupt`; in drain_jobs it is not an
\* Exception, so neither handler error path catches it.
InTry(w) == w.pc \in {"subscribe", "wait"} \/ (w.site = "event" /\ w.pc # "sleep")

\* (mutation of Interrupted: the try block treats it like any Exception)
Interrupted_swallowed(w) ==
    IF InTry(w)
    THEN [w EXCEPT !.pc = "drain", !.site = "except", !.cause = "failure",
                   !.job = 0, !.err = 0, !.event = NoEvent, !.read_timeout = 0]
    ELSE Exited(w, "KeyboardInterrupt", FALSE)

\* (mutation of Interrupted: drain_jobs catches it around process_fn like
\* the errors of the handler)
Interrupted_caught(w) ==
    IF w.pc \in {"work", "complete"} THEN HandlerRaised(w, ShortErr)
    ELSE Exited(w, "KeyboardInterrupt", InTry(w))

\* KeyboardInterrupt is no Exception: `except Exception` (drain_jobs line 52
\* and 56, run_sse_loop line 101) lets it pass, `except KeyboardInterrupt`
\* (line 98) logs the count and re-raises.
Interrupted(w) == Exited(w, "KeyboardInterrupt", InTry(w))

cancel(i) ==
    LET w == Fresh(wk[i]) IN
    /\ w.pc # "exited"
    /\ wk' = [wk EXCEPT ![i] = Interrupted(w)]
    /\ UNCHANGED <<others, rc, job_kinds, poll_interval, jobs, hist>>

\* wait_for_backend(client, job_kind): client.claim_job(job_kind) is the
\* probe; its result is not kept.  An exception is logged and, after a
\* sleep, the next attempt is made; after max_retries attempts RuntimeError.
\* On return main goes on to run_sse_loop.
wait_for_backend(i) ==
    LET w == Fresh(wk[i])
        k == job_kinds[1]
    IN  /\ w.pc = "startup"
        /\ \/ /\ Pending(k) # {}
              /\ LET j == FirstPending(k) IN
                   /\ jobs' = BackendClaim(j)
                   /\ hist' = [hist EXCEPT ![j].by = @ \cup {i}]
              /\ wk' = [wk EXCEPT ![i] = [w EXCEPT !.pc = "drain", !.attempt = 0]]
           \/ /\ Pending(k) = {}
              /\ wk' = [wk EXCEPT ![i] = [w EXCEPT !.pc = "drain", !.attempt = 0]]
              /\ UNCHANGED <<jobs, hist>>
           \/ /\ wk' = [wk EXCEPT ![i] =
                          IF w.attempt + 1 < WaitMaxRetries
                          THEN [w EXCEPT !.attempt = @ + 1]
                          ELSE Exited(w, "RuntimeError", FALSE)]
              /\ UNCHANGED <<jobs, hist>>
        /\ UNCHANGED <<others, rc, job_kinds, poll_interval>>

\* One step of worker i that the backend being reachable allows.
WorkerStep(i) ==
    \/ drain_jobs(i)
    \/ claim_job_some(i)
    \/ claim_job_none(i)
    \/ process_fn_work(i)
    \/ complete_job(i)
    \/ fail_job(i)
    \/ job_events(i)
    \/ next_event(i)
    \/ events_raise(i)
    \/ events_end(i)
    \/ reconnect_sleep(i)

run_sse_loop(i) ==
    \/ WorkerStep(i)
    \/ claim_job_raises(i)
    \/ cancel(i)

(***************************************************************************)
(* scraper_cz: main, run_scrape, ingest_record and the backend's ingest    *)
(* records.                                                                *)
(***************************************************************************)
SourceIds == {"X", "Y"}
RecIds == 1..MaxRecords
\* the input lists of run_scrape; a source id may occur more than once
InputLists == {<<"X", "Y">>, <<"X", "X">>, <<"X", "Y", "X">>}

\* known_statuses.get(xid) of an absent key (None, falsy like "")
NoStatus == ""
NoRecord == [src |-> "", status |-> "none"]

\* the records of a source id that exist at the backend
Live(src) == {r \in RecIds : records[r].src = src /\ records[r].status \in {"ingesting", "ocr_pending"}}
FreeIds == {r \in RecIds : records[r].status = "none"}
NextId == CHOOSE r \in FreeIds : \A o \in FreeIds : r <= o

\* (mutation of BackendCreate: no create-or-conflict check)
BackendCreate_unchecked(src) ==
    [ok |-> TRUE, id |-> NextId,
     records |-> [records EXCEPT ![NextId] = [src |-> src, status |-> "ingesting"]]]

\* POST /api/ingest/records: a record in status "ingesting", or a conflict
\* when the source id already has a record.
BackendCreate(src) ==
    IF Live(src) # {}
    THEN [ok |-> FALSE, id |-> 0, records |-> records]
    ELSE [ok |-> TRUE, id |-> NextId,
          records |-> [records EXCEPT ![NextId] = [src |-> src, status |-> "ingesting"]]]

\* DELETE /api/ingest/records/{id}
BackendDelete(r) == [records EXCEPT ![r].status = "deleted"]
\* POST /api/ingest/records/{id}/complete
BackendComplete(r) ==
    IF records[r].status = "ingesting" THEN [records EXCEPT ![r].status = "ocr_pending"]
    ELSE records
\* GET /api/ingest/status/{sourceSystem}: sourceRecordId -> status
BackendStatuses ==
    [x \in SourceIds |->
        IF Live(x) = {} THEN NoStatus ELSE records[CHOOSE r \in Live(x) : TRUE].status]
\* GET /api/ingest/status/{sourceSystem}/{id}: the record id, 0 for a 404
BackendLookup(x) == IF Live(x) = {} THEN 0 ELSE CHOOSE r \in Live(x) : TRUE

NoCalls == <<>>
Call(op, arg, ok) == [op |-> op, arg |-> arg, ok |-> ok]

ScraperInit ==
    [pc |-> "start", dry_run |-> FALSE, list |-> <<>>, i |-> 0,
     success |-> 0, failed |-> 0, skipped |-> 0,
     result |-> "", calls |-> NoCalls, cached |-> NoStatus, looked |-> 0,
     record_id |-> 0, restarts |-> 0]

xid == sr.list[sr.i]

\* (mutation of Tally: everything that is not "ok" counts as failed)
Tally_lumped(s, result) ==
    IF result = "ok" THEN [s EXCEPT !.success = @ + 1, !.result = result, !.pc = "heartbeat"]
    ELSE [s EXCEPT !.failed = @ + 1, !.result = result, !.pc = "heartbeat"]

\* (mutation of Tally: no try/except around ingest_record, an exception
\* ends the loop)
Tally_stops(s, result) ==
    CASE result = "skipped" -> [s EXCEPT !.skipped = @ + 1, !.result = result, !.pc = "heartbeat"]
      [] result = "ok"      -> [s EXCEPT !.success = @ + 1, !.result = result, !.pc = "heartbeat"]
      [] OTHER              -> [s EXCEPT !.failed = @ + 1, !.result = result, !.pc = "finished"]

\* run_scrape lines 226-238: the result of ingest_record, or the exception
\* it raised, is counted.
Tally(s, result) ==
    CASE result = "skipped" -> [s EXCEPT !.skipped = @ + 1, !.result = result, !.pc = "heartbeat"]
      [] result = "ok"      -> [s EXCEPT !.success = @ + 1, !.result = result, !.pc = "heartbeat"]
      [] OTHER              -> [s EXCEPT !.failed = @ + 1, !.result = result, !.pc = "heartbeat"]

Logged(s, op, arg, ok) == [s EXCEPT !.calls = Append(@, Call(op, arg, ok))]

\* `if current_status and current_status not in ("ingesting",)`
ShouldSkip(status) == status # NoStatus /\ status # "ingesting"

\* main lines 620-627: known_statuses is fetched unless --dry-run; an error
\* of get_all_statuses ends the process.
main ==
    /\ sr.pc = "start"
    /\ \/ /\ known_statuses' = IF sr.dry_run THEN [x \in SourceIds |-> NoStatus]
                               ELSE BackendStatuses
          /\ sr' = [sr EXCEPT !.pc = "gate", !.i = 1]
       \/ /\ ~sr.dry_run
          /\ known_statuses' = known_statuses
          /\ sr' = [sr EXCEPT !.pc = "crashed"]
    /\ UNCHANGED <<records, cl, rc, bo, loopVars, trackVars>>

\* ingest_record lines 113-118: the gate on the cached status.
ingest_gate ==
    /\ sr.pc = "gate"
    /\ LET current_status == known_statuses[xid]
           s == [sr EXCEPT !.cached = current_status]
       IN  sr' = IF sr.dry_run THEN [s EXCEPT !.pc = "detail", !.cached = NoStatus]
                 ELSE IF ShouldSkip(current_status) THEN Tally(s, "skipped")
                 ELSE IF current_status = "ingesting" THEN [s EXCEPT !.pc = "get_status"]
                 ELSE [s EXCEPT !.pc = "detail"]
    /\ UNCHANGED <<known_statuses, records, cl, rc, bo, loopVars, trackVars>>

\* lines 121-122: status_info = client.get_status(...); record_id = .get("id")
ingest_get_status ==
    /\ sr.pc = "get_status"
    /\ \/ LET r == BackendLookup(xid)
              s == [Logged(sr, "get_status", 0, TRUE) EXCEPT !.looked = r]
          IN  sr' = IF r # 0 THEN [s EXCEPT !.pc = "delete"] ELSE [s EXCEPT !.pc = "detail"]
       \/ sr' = Tally(Logged(sr, "get_status", 0, FALSE), "raised")
    /\ UNCHANGED <<known_statuses, records, cl, rc, bo, loopVars, trackVars>>

\* (mutation of Popped: the item stays in the cache)
Popped_kept(ks, x) == ks

\* known_statuses.pop(xid, None)
Popped(ks, x) == [ks EXCEPT ![x] = NoStatus]

\* lines 124-128: client.delete_record(record_id); known_statuses.pop(xid)
ingest_delete_record ==
    /\ sr.pc = "delete"
    /\ \/ /\ records' = BackendDelete(sr.looked)
          /\ known_statuses' = Popped(known_statuses, xid)
          /\ sr' = [Logged(sr, "delete_record", sr.looked, TRUE) EXCEPT !.pc = "detail"]
       \/ /\ \E applied \in BOOLEAN :
               records' = IF applied THEN BackendDelete(sr.looked) ELSE records
          /\ known_statuses' = known_statuses
          /\ sr' = Tally(Logged(sr, "delete_record", sr.looked, FALSE), "raised")
    /\ UNCHANGED <<cl, rc, bo, loopVars, trackVars>>

\* lines 131-142: detail = load_record_detail(session, xid), a request to
\* the external site; a dry run ends here.
ingest_load_detail ==
    /\ sr.pc = "detail"
    /\ \/ sr' = LET s == Logged(sr, "load_record_detail", 0, TRUE)
                IN  IF sr.dry_run THEN Tally(s, "ok") ELSE [s EXCEPT !.pc = "create"]
       \/ sr' = Tally(Logged(sr, "load_record_detail", 0, FALSE), "raised")
    /\ UNCHANGED <<known_statuses, records, cl, rc, bo, loopVars, trackVars>>

\* lines 145-155: record_id = client.create_record(SOURCE_SYSTEM, xid, metadata);
\* a record without scans goes straight to complete_ingest.
ingest_create_record ==
    /\ sr.pc = "create"
    /\ FreeIds # {}
    /\ LET c == BackendCreate(xid) IN
       \/ /\ c.ok
          /\ records' = c.records
          /\ \E scans \in BOOLEAN :
               sr' = [Logged(sr, "create_record", c.id, TRUE) EXCEPT
                         !.record_id = c.id,
                         !.pc = IF scans THEN "upload" ELSE "complete"]
       \/ /\ \E applied \in BOOLEAN : records' = IF applied THEN c.records ELSE records
          /\ sr' = Tally(Logged(sr, "create_record", 0, FALSE), "raised")
    /\ UNCHANGED <<known_statuses, cl, rc, bo, loopVars, trackVars>>

\* lines 158-194: the scans are fetched from the site and uploaded page by
\* page, then the PDF; any of these requests may raise.
ingest_upload ==
    /\ sr.pc = "upload"
    /\ \/ sr' = [Logged(sr, "upload_page", sr.record_id, TRUE) EXCEPT !.pc = "complete"]
       \/ sr' = Tally(Logged(sr, "upload_page", sr.record_id, FALSE), "raised")
    /\ UNCHANGED <<known_statuses, records, cl, rc, bo, loopVars, trackVars>>

\* (mutation of MarkedDone: the assignment comes before complete_ingest)
MarkedDone_early(ks, x, ok) == [ks EXCEPT ![x] = "ocr_pending"]

\* known_statuses[xid] = "ocr_pending", the statement after
\* client.complete_ingest(record_id): not reached when that call raises
MarkedDone(ks, x, ok) == IF ok THEN [ks EXCEPT ![x] = "ocr_pending"] ELSE ks

\* lines 197-201 (and 153-155): client.complete_ingest(record_id);
\* known_statuses[xid] = "ocr_pending"; return "ok"
ingest_complete ==
    /\ sr.pc = "complete"
    /\ \/ /\ records' = BackendComplete(sr.record_id)
          /\ known_statuses' = MarkedDone(known_statuses, xid, TRUE)
          /\ sr' = Tally(Logged(sr, "complete_ingest", sr.record_id, TRUE), "ok")
       \/ /\ \E applied \in BOOLEAN :
               records' = IF applied THEN BackendComplete(sr.record_id) ELSE records
          /\ known_statuses' = MarkedDone(known_statuses, xid, FALSE)
          /\ sr' = Tally(Logged(sr, "complete_ingest", sr.record_id, FALSE), "raised")
    /\ UNCHANGED <<cl, rc, bo, loopVars, trackVars>>

\* run_scrape lines 240-245: heartbeat (its errors are swallowed), sleep,
\* next record; after the last one the counts are returned.
run_scrape_next ==
    /\ sr.pc = "heartbeat"
    /\ sr' = IF sr.i < Len(sr.list)
             THEN [sr EXCEPT !.pc = "gate", !.i = @ + 1, !.result = "", !.calls = NoCalls,
                             !.cached = NoStatus, !.looked = 0, !.record_id = 0]
             ELSE [sr EXCEPT !.pc = "finished", !.result = "", !.calls = NoCalls,
                             !.cached = NoStatus, !.looked = 0, !.record_id = 0]
    /\ UNCHANGED <<known_statuses, records, cl, rc, bo, loopVars, trackVars>>

\* The process is killed (or interrupted) between two steps: its locals and
\* its cache are gone.
crash ==
    /\ sr.pc \notin {"start", "crashed", "finished"}
    /\ sr' = [ScraperInit EXCEPT !.pc = "crashed", !.list = sr.list,
                                 !.dry_run = sr.dry_run, !.restarts = sr.restarts]
    /\ known_statuses' = [x \in SourceIds |-> NoStatus]
    /\ UNCHANGED <<records, cl, rc, bo, loopVars, trackVars>>

\* The scraper is started again on the same input.
restart ==
    /\ sr.pc \in {"crashed", "finished"}
    /\ sr.restarts < MaxRestarts
    /\ \E d \in BOOLEAN :
          sr' = [ScraperInit EXCEPT !.list = sr.list, !.dry_run = d,
                                    !.restarts = sr.restarts + 1]
    /\ known_statuses' = [x \in SourceIds |-> NoStatus]
    /\ UNCHANGED <<records, cl, rc, bo, loopVars, trackVars>>

ingest_record ==
    \/ ingest_gate
    \/ ingest_get_status
    \/ ingest_delete_record
    \/ ingest_load_detail
    \/ ingest_create_record
    \/ ingest_upload
    \/ ingest_complete

ScrapeIdle ==
    /\ known_statuses = [x \in SourceIds |-> NoStatus]
    /\ records = [r \in RecIds |-> NoRecord]
    /\ sr = ScraperInit

ScrapeStart ==
    /\ known_statuses = [x \in SourceIds |-> NoStatus]
    /\ records = [r \in RecIds |-> NoRecord]
    /\ \E l \in InputLists, d \in BOOLEAN :
          sr = [ScraperInit EXCEPT !.list = l, !.dry_run = d]

(***************************************************************************)
(* scraper_cz.progress.ProgressTracker and its checkpoint file.            *)
(***************************************************************************)
\* nad arguments: an int or its string form
IntNad(n) == [t |-> "int", n |-> n, s |-> ""]
StrNad(s) == [t |-> "str", n |-> 0, s |-> s]
Nads == {IntNad(1), StrNad("1"), IntNad(2)}
Digits == <<"1", "2">>
\* str(nad)
str(nad) == IF nad.t = "int" THEN Digits[nad.n] ELSE nad.s
Partitions == {"1", "2"}

Kinds == {"probed_xids", "hidden_xids", "ingested_xids"}
NoEntry == [present |-> FALSE, probed_xids |-> <<>>, hidden_xids |-> <<>>, ingested_xids |-> <<>>]
NewEntry == [NoEntry EXCEPT !.present = TRUE]
NoData == [p \in Partitions |-> NoEntry]
Range(seq) == {seq[k] : k \in 1..Len(seq)}

\* json.dump(self._data, f): one "key": {lists} member per partition
json_dump(data) ==
    {[key |-> p, probed_xids |-> data[p].probed_xids, hidden_xids |-> data[p].hidden_xids,
      ingested_xids |-> data[p].ingested_xids] : p \in {q \in Partitions : data[q].present}}

\* (mutation of json_load: the hidden lists are not read back)
json_load_partial(text) ==
    [p \in Partitions |->
        IF \E kv \in text : kv.key = p
        THEN LET kv == CHOOSE m \in text : m.key = p
             IN  [present |-> TRUE, probed_xids |-> kv.probed_xids,
                  hidden_xids |-> <<>>, ingested_xids |-> kv.ingested_xids]
        ELSE NoEntry]

\* json.load(f)
json_load(text) ==
    [p \in Partitions |->
        IF \E kv \in text : kv.key = p
        THEN LET kv == CHOOSE m \in text : m.key = p
             IN  [present |-> TRUE, probed_xids |-> kv.probed_xids,
                  hidden_xids |-> kv.hidden_xids, ingested_xids |-> kv.ingested_xids]
        ELSE NoEntry]

NoFile == [state |-> "absent", text |-> {}]
NoFiles == [target |-> NoFile, tmp |-> NoFile]

SomePath == [kind |-> "path"]
Paths == {None, SomePath}

NoCall == [op |-> "none", nad |-> StrNad(""), xid |-> 0]
TrackerCall(op, nad, x) == [op |-> op, nad |-> nad, xid |-> x]

\* (mutation of PathIsNone: the no-path guard is missing)
PathIsNone_missing(t) == FALSE

\* `if self._path is None: return`
PathIsNone(t) == t.path = None

\* __init__: the file is loaded when a path is given and the file exists.
\* (A checkpoint that does not parse makes json.load raise: the tracker is
\* not constructed, pc "failed".)
ProgressTracker(path) ==
    LET t == [path |-> path, data |-> NoData, dirty |-> 0, pc |-> "ready",
              raised |-> FALSE, saved |-> FALSE, last |-> NoCall]
    IN  IF path # None /\ fs.target.state # "absent"
        THEN IF fs.target.state = "complete"
             THEN [t EXCEPT !.data = json_load(fs.target.text)]
             ELSE [t EXCEPT !.pc = "failed"]
        ELSE t

TrackerIdle ==
    [path |-> None, data |-> NoData, dirty |-> 0, pc |-> "none",
     raised |-> FALSE, saved |-> FALSE, last |-> NoCall]

\* (mutation of _ensure_nad: a new partition starts a new dictionary)
_ensure_nad_fresh(data, nad) ==
    IF data[str(nad)].present THEN data ELSE [NoData EXCEPT ![str(nad)] = NewEntry]

\* _ensure_nad(nad)
_ensure_nad(data, nad) ==
    IF data[str(nad)].present THEN data ELSE [data EXCEPT ![str(nad)] = NewEntry]

\* is_probed, is_ingested, get_hidden_xids of tracker t
is_probed(t, nad, x) ==
    IF PathIsNone(t) THEN FALSE
    ELSE t.data[str(nad)].present /\ x \in Range(t.data[str(nad)].probed_xids)
is_ingested(t, nad, x) ==
    IF PathIsNone(t) THEN FALSE
    ELSE t.data[str(nad)].present /\ x \in Range(t.data[str(nad)].ingested_xids)
get_hidden_xids(t, nad) ==
    IF t.data[str(nad)].present THEN t.data[str(nad)].hidden_xids ELSE <<>>

\* a call begins: what the previous call left for its caller is gone
Called(t, op, nad, x) ==
    [t EXCEPT !.raised = FALSE, !.saved = FALSE, !.last = TrackerCall(op, nad, x)]

\* (mutation of Counted: the threshold is tested before the increment)
Counted_late(t) ==
    IF t.dirty >= _AUTOSAVE_INTERVAL THEN [t EXCEPT !.dirty = @ + 1, !.pc = "open"]
    ELSE [t EXCEPT !.dirty = @ + 1]

\* self._dirty += 1; if self._dirty >= _AUTOSAVE_INTERVAL: self.save()
Counted(t) ==
    IF t.dirty + 1 >= _AUTOSAVE_INTERVAL THEN [t EXCEPT !.dirty = @ + 1, !.pc = "open"]
    ELSE [t EXCEPT !.dirty = @ + 1]

\* (mutation of Marked: the id is appended without the membership test)
Marked_appended(t, nad, kind, x) ==
    LET key == str(nad)
        data == _ensure_nad(t.data, nad)
    IN  [t EXCEPT !.data = [data EXCEPT ![key][kind] = Append(@, x)]]

\* entry = self._ensure_nad(nad); if x not in entry[kind]: entry[kind].append(x)
Marked(t, nad, kind, x) ==
    LET key == str(nad)
        data == _ensure_nad(t.data, nad)
    IN  IF x \in Range(data[key][kind]) THEN [t EXCEPT !.data = data]
        ELSE [t EXCEPT !.data = [data EXCEPT ![key][kind] = Append(@, x)]]

IsNew(t, nad, kind, x) == x \notin Range(t.data[str(nad)][kind])

\* mark_probed / mark_ingested: a new id is counted towards the autosave
mark_counted(op, kind, nad, x) ==
    /\ pt.pc = "ready"
    /\ LET t == Called(pt, op, nad, x) IN
       pt' = IF PathIsNone(t) THEN t
             ELSE IF IsNew(t, nad, kind, x) THEN Counted(Marked(t, nad, kind, x))
             ELSE Marked(t, nad, kind, x)
    /\ fs' = fs

mark_probed(nad, x) == mark_counted("mark_probed", "probed_xids", nad, x)
mark_ingested(nad, x) == mark_counted("mark_ingested", "ingested_xids", nad, x)

mark_hidden(nad, x) ==
    /\ pt.pc = "ready"
    /\ LET t == Called(pt, "mark_hidden", nad, x) IN
       pt' = IF PathIsNone(t) THEN t ELSE Marked(t, nad, "hidden_xids", x)
    /\ fs' = fs

\* (mutation of WriteTarget: save() writes straight into the checkpoint)
WriteTarget_direct == "target"

\* tmp = self._path + ".tmp": the file save() opens and writes
WriteTarget == "tmp"

\* raise out of save(): the call (save, or the mark that autosaved) ends
Raised(t) == [t EXCEPT !.pc = "ready", !.raised = TRUE]

\* save(): `if self._path is None: return`, else on to open(tmp, "w")
save ==
    /\ pt.pc = "ready"
    /\ LET t == Called(pt, "save", StrNad(""), 0) IN
       pt' = IF PathIsNone(t) THEN [t EXCEPT !.saved = TRUE] ELSE [t EXCEPT !.pc = "open"]
    /\ fs' = fs

\* open(tmp, "w"): the file is created or truncated, or OSError
save_open(ok) ==
    /\ pt.pc = "open"
    /\ IF ok THEN /\ fs' = [fs EXCEPT ![WriteTarget] = [state |-> "partial", text |-> {}]]
                  /\ pt' = [pt EXCEPT !.pc = "write"]
       ELSE fs' = fs /\ pt' = Raised(pt)

\* json.dump(self._data, f) and the close of the `with` block, or OSError
save_write(ok) ==
    /\ pt.pc = "write"
    /\ IF ok THEN /\ fs' = [fs EXCEPT ![WriteTarget] =
                                [state |-> "complete", text |-> json_dump(pt.data)]]
                  /\ pt' = [pt EXCEPT !.pc = "replace"]
       ELSE fs' = fs /\ pt' = Raised(pt)

\* os.replace(tmp, self._path); self._dirty = 0, or OSError from the rename
save_replace(ok) ==
    /\ pt.pc = "replace"
    /\ IF ok THEN /\ fs' = [target |-> fs[WriteTarget], tmp |-> NoFile]
                  /\ pt' = [pt EXCEPT !.pc = "ready", !.dirty = 0, !.saved = TRUE]
       ELSE fs' = fs /\ pt' = Raised(pt)

save_step(oks) ==
    \E ok \in oks : save_open(ok) \/ save_write(ok) \/ save_replace(ok)

\* the process dies: memory is lost, the files stay as they are
tracker_crash ==
    /\ pt.pc \in {"ready", "open", "write", "replace"}
    /\ pt' = [TrackerIdle EXCEPT !.path = pt.path, !.pc = "down"]
    /\ fs' = fs

\* the next process start: main builds ProgressTracker(args.progress_file)
tracker_start ==
    /\ pt.pc = "down"
    /\ pt' = ProgressTracker(pt.path)
    /\ fs' = fs

Size(data) ==
    LET n(p) == Len(data[p].probed_xids) + Len(data[p].hidden_xids) + Len(data[p].ingested_xids)
    IN  n("1") + n("2")

(***************************************************************************)
(* scraper_cz.enumerator.probe_for_hidden over zero_scan_records with xids *)
(* 1..MaxXids, for partition nad 1.                                        *)
(***************************************************************************)
\* the records whose permalink page shows scans
HiddenXids == {2, _AUTOSAVE_INTERVAL}
scans(x) == IF x \in HiddenXids THEN 1 ELSE 0
ProbeNad == IntNad(1)

\* pc: none, loop (top of the for loop), autosave (inside mark_probed, in
\* save()), final (in the closing progress.save()), returned, raised.
\* caught: what the `except Exception` of the loop body last caught.
\* total: len(zero_scan_records).  req: the xid whose permalink page the
\* step just taken requested, 0 when it requested none.  runs: the starts
\* of the process before this one.  all_to_ingest: what run_fond_scrape
\* hands to run_scrape once probe_for_hidden has returned.
ProbeIdle ==
    [pc |-> "none", i |-> 0, hidden |-> <<>>, caught |-> "none", errors |-> 0,
     total |-> 0, req |-> 0, runs |-> 0, all_to_ingest |-> <<>>]

probe_for_hidden ==
    /\ pr.pc = "none" /\ pt.pc = "ready"
    /\ pr' = [ProbeIdle EXCEPT !.pc = "loop", !.i = 1, !.total = pr.total, !.runs = pr.runs]
    /\ UNCHANGED <<pt, fs>>

\* except Exception as e: log.warning("  Error probing xid=%s: %s", ...);
\* the loop goes on with the next record
Caught(p, what) == [p EXCEPT !.caught = what, !.i = @ + 1, !.pc = "loop", !.req = 0]

\* `if progress.is_probed(nad, xid): continue`
probe_skip ==
    /\ pr.pc = "loop" /\ pr.i <= pr.total
    /\ is_probed(pt, ProbeNad, pr.i)
    /\ pr' = [pr EXCEPT !.i = @ + 1, !.req = 0]
    /\ UNCHANGED <<pt, fs>>

\* (mutation of probe_fails: mark_probed comes before the request)
probe_fails_marked ==
    /\ pr.pc = "loop" /\ pr.i <= pr.total
    /\ ~is_probed(pt, ProbeNad, pr.i)
    /\ pr.errors < MaxProbeErrors
    /\ pr' = [Caught(pr, "probe") EXCEPT !.errors = @ + 1, !.req = pr.i]
    /\ mark_probed(ProbeNad, pr.i)

\* get_permalink_page_safe / extract_scan_count raises
probe_fails ==
    /\ pr.pc = "loop" /\ pr.i <= pr.total
    /\ ~is_probed(pt, ProbeNad, pr.i)
    /\ pr.errors < MaxProbeErrors
    /\ pr' = [Caught(pr, "probe") EXCEPT !.errors = @ + 1, !.req = pr.i]
    /\ UNCHANGED <<pt, fs>>

\* after mark_probed returned: `if scans > 0: hidden.append(rec);
\* progress.mark_hidden(nad, xid)`
probe_rest ==
    /\ IF scans(pr.i) > 0
       THEN mark_hidden(ProbeNad, pr.i)
            /\ pr' = [pr EXCEPT !.hidden = Append(@, pr.i), !.i = @ + 1, !.pc = "loop",
                                !.req = 0]
       ELSE UNCHANGED <<pt, fs>> /\ pr' = [pr EXCEPT !.i = @ + 1, !.pc = "loop", !.req = 0]

\* the page loads: progress.mark_probed(nad, xid), which may go into save()
probe_record ==
    /\ pr.pc = "loop" /\ pr.i <= pr.total
    /\ ~is_probed(pt, ProbeNad, pr.i)
    /\ LET t == Called(pt, "mark_probed", ProbeNad, pr.i)
           marked == IF PathIsNone(t) THEN t
                     ELSE Counted(Marked(t, ProbeNad, "probed_xids", pr.i))
       IN  IF marked.pc = "open"
           THEN mark_probed(ProbeNad, pr.i)
                /\ pr' = [pr EXCEPT !.pc = "autosave", !.req = pr.i]
           ELSE IF scans(pr.i) > 0
           THEN /\ pt' = IF PathIsNone(marked) THEN marked
                         ELSE Marked(Called(marked, "mark_hidden", ProbeNad, pr.i),
                                     ProbeNad, "hidden_xids", pr.i)
                /\ fs' = fs
                /\ pr' = [pr EXCEPT !.hidden = Append(@, pr.i), !.i = @ + 1, !.req = pr.i]
           ELSE mark_probed(ProbeNad, pr.i) /\ pr' = [pr EXCEPT !.i = @ + 1, !.req = pr.i]

\* save() inside mark_probed has ended: it returned, or it raised into the
\* try block of the loop body
probe_autosaved ==
    /\ pr.pc = "autosave" /\ pt.pc = "ready"
    /\ IF pt.raised
       THEN pr' = Caught(pr, "save") /\ UNCHANGED <<pt, fs>>
       ELSE probe_rest

\* after the loop: progress.save(), outside the try block
probe_save ==
    /\ pr.pc = "loop" /\ pr.i > pr.total
    /\ save
    /\ pr' = [pr EXCEPT !.pc = "final", !.req = 0]

\* return hidden, or the error of the closing save() leaves probe_for_hidden;
\* run_fond_scrape line 314: all_to_ingest = with_scans + hidden (every
\* record here is a zero-scan record, with_scans is empty)
probe_return ==
    /\ pr.pc = "final" /\ pt.pc = "ready"
    /\ pr' = IF pt.raised THEN [pr EXCEPT !.pc = "raised"]
             ELSE [pr EXCEPT !.pc = "returned", !.all_to_ingest = pr.hidden]
    /\ UNCHANGED <<pt, fs>>

\* The process dies during or after the probing, before anything of
\* all_to_ingest is ingested, and is started again with the same arguments:
\* main builds ProgressTracker(args.progress_file) and calls run_fond_scrape.
fond_restart ==
    /\ pr.pc \in {"loop", "final", "returned", "raised"}
    /\ pt.pc \in {"ready", "open", "write", "replace"}
    /\ pr.runs < MaxRestarts
    /\ pt' = ProgressTracker(pt.path)
    /\ fs' = fs
    /\ pr' = [ProbeIdle EXCEPT !.total = pr.total, !.runs = pr.runs + 1]

probe_step ==
    \/ probe_for_hidden \/ probe_skip \/ probe_fails \/ probe_record
    \/ probe_autosaved \/ probe_save \/ probe_return
    \/ (save_step(BOOLEAN) /\ UNCHANGED pr)
\* ---------------------------------------------------------------------
\* enumerate_all (scraper_cz/enumerator.py): the first search, then the
\* pagination loop.  The site's answers are the inputs of each step; the
\* result list and the seen set are modelled by their common size.
\* ---------------------------------------------------------------------
MaxTotal == 3          \* largest result count the site reports
MaxItems == 2          \* largest max_items argument (0 means no cap)
MaxPage == 2           \* most new ids one page brings
DefaultPageSize == 12  \* `len(results) if results else 12`
EmptyLimit == 2        \* `if retries > 2` after a page without new ids
ErrorLimit == 3        \* `if retries > 3` after an error or a lost session

EnumIdle ==
    [pc |-> "none", total |-> 0, all_results |-> 0, effective_cap |-> 0, page_size |-> 0,
     row |-> 0, retries |-> 0, new_count |-> 0, empty |-> 0, errs |-> 0]

\* effective_cap = total if max_items == 0 else min(total, max_items)
EffectiveCap(total, max_items) == IF max_items = 0 THEN total ELSE Min(total, max_items)

\* The entry of enumerate_all up to the loop: reinit and search (which may
\* raise to the caller), the first page, the early returns, the locals.
enumerate_all(raises, total, max_items, first, has_sp, fwd_new) ==
    /\ en.pc = "none"
    /\ en' = IF raises THEN [EnumIdle EXCEPT !.pc = "raised"]
             ELSE IF total = 0 THEN [EnumIdle EXCEPT !.pc = "returned"]
             ELSE LET cap == EffectiveCap(total, max_items)
                      e == [EnumIdle EXCEPT !.total = total, !.all_results = first,
                                            !.effective_cap = cap]
                  IN IF first >= cap THEN [e EXCEPT !.pc = "returned"]
                     ELSE IF ~has_sp
                          THEN [e EXCEPT !.pc = "returned", !.all_results = @ + fwd_new]
                     ELSE [e EXCEPT !.pc = "while",
                                    !.page_size = IF first > 0 THEN first ELSE DefaultPageSize,
                                    !.row = (IF first > 0 THEN first ELSE DefaultPageSize) + 1]

\* retries += 1; if retries > 3: break   (the except clause, and the lost
\* session whose search page has no form parameters)
Failed_forgets(e) == [e EXCEPT !.pc = "while"]
Failed(e) ==
    [e EXCEPT !.retries = @ + 1,
              !.pc = IF e.retries + 1 > ErrorLimit THEN "returned" ELSE "while"]

\* The page was parsed: new ids are appended; a page without new ids counts
\* a retry and may break, a page with new ids resets the counter; then the
\* row advances by one page.
Parsed(e, new_count) ==
    LET a == [e EXCEPT !.all_results = @ + new_count, !.new_count = new_count]
    IN IF new_count = 0
       THEN IF e.retries + 1 > EmptyLimit
            THEN [a EXCEPT !.retries = @ + 1, !.pc = "returned"]
            ELSE [a EXCEPT !.retries = @ + 1, !.row = @ + e.page_size]
       ELSE [a EXCEPT !.retries = 0, !.row = @ + e.page_size]

\* while len(all_results) < effective_cap: one iteration of the body
InLoop == en.pc = "while" /\ en.all_results < en.effective_cap

\* goto_page, reinit or search raised
page_error ==
    /\ InLoop
    /\ en' = [Failed(en) EXCEPT !.new_count = 0, !.empty = 0,
                                !.errs = Min(en.errs + 1, ErrorLimit + 1)]

\* the session expired and the new search page has no form parameters
page_expired ==
    /\ InLoop
    /\ en' = [Failed(en) EXCEPT !.new_count = 0, !.empty = 0,
                                !.errs = Min(en.errs + 1, ErrorLimit + 1)]

\* the page (of the same session, or of the one opened after an expiry)
\* was parsed and brought new_count ids that were not seen before
page_parsed(new_count) ==
    /\ InLoop
    /\ en' = [Parsed(en, new_count) EXCEPT
                 !.errs = 0,
                 !.empty = IF new_count = 0 THEN Min(en.empty + 1, EmptyLimit + 1) ELSE 0]

\* the loop condition is false: return total, all_results
enumerate_return ==
    /\ en.pc = "while" /\ en.all_results >= en.effective_cap
    /\ en' = [en EXCEPT !.pc = "returned"]


TrackIdle == pt = TrackerIdle /\ fs = NoFiles /\ pr = ProbeIdle /\ en = EnumIdle

\* Observation of worker "A": `waits` counts the backoff sleeps since the
\* last successful job_events() (or since the start), `before` is the number
\* of sleeps that preceded that connection, `delay` is reconnect_delay as it
\* was when the last sleep began.
NoWaits == [waits |-> 0, before |-> 0, delay |-> 0]

ObserveWaits ==
    LET w == wk["A"]
        n == wk'["A"]
    IN  bo' = IF w.pc = "subscribe" /\ n.pc = "wait"
              THEN [bo EXCEPT !.waits = 0, !.before = bo.waits]
              ELSE IF w.pc = "sleep" /\ n.pc = "drain"
              THEN [bo EXCEPT !.waits = Min(@ + 1, MaxWaits), !.delay = w.reconnect_delay]
              ELSE bo

LoopIdle ==
    /\ job_kinds = <<>>
    /\ poll_interval = 0
    /\ wk = [i \in Workers |-> WorkerInit]
    /\ jobs = [j \in JobIds |-> NoJob]
    /\ hist = [j \in JobIds |-> NoHist]

LoopInit ==
    /\ job_kinds \in KindLists
    /\ poll_interval \in PollIntervals
    /\ wk = [i \in Workers |-> WorkerInit]
    /\ jobs = [j \in JobIds |-> NoJob]
    /\ hist = [j \in JobIds |-> NoHist]

(***************************************************************************)
(* Specifications.                                                         *)
(***************************************************************************)
\* One worker process against the backend.
Init == LoopInit /\ rc = HttpIdle /\ cl = ClientIdle /\ bo = NoWaits /\ ScrapeIdle /\ TrackIdle
Next == (Enqueue(AllKinds, MaxJobs) \/ run_sse_loop("A")) /\ UNCHANGED bo
Spec == Init /\ [][Next]_vars

\* One worker process while the backend stays reachable (claim_job does not
\* raise) and nobody interrupts it; the process keeps running.
NextFair == (Enqueue(AllKinds, MaxJobs) \/ WorkerStep("A")) /\ UNCHANGED bo
SpecFair == Init /\ [][NextFair]_vars /\ WF_vars(WorkerStep("A") /\ UNCHANGED bo)

\* Two worker processes with the same kind list against the same backend;
\* the backend creates jobs of that kind.
InitWorkers ==
    /\ job_kinds = <<"translate_page">>
    /\ poll_interval = 1
    /\ wk = [i \in Workers |-> WorkerInit]
    /\ jobs = [j \in JobIds |-> NoJob]
    /\ hist = [j \in JobIds |-> NoHist]
    /\ rc = HttpIdle
    /\ cl = ClientIdle
    /\ bo = NoWaits
    /\ ScrapeIdle /\ TrackIdle
NextWorkers ==
    (Enqueue(kind_set, MaxSharedJobs) \/ \E i \in Workers : run_sse_loop(i)) /\ UNCHANGED bo
SpecWorkers == InitWorkers /\ [][NextWorkers]_vars

\* One worker process whose reconnect waits are observed; poll_interval is
\* below or above the cap of the sleep.
ReconnectPollIntervals == {3, DefaultPollInterval}
InitReconnect ==
    /\ job_kinds = <<"translate_page">>
    /\ poll_interval \in ReconnectPollIntervals
    /\ wk = [i \in Workers |-> WorkerInit]
    /\ jobs = [j \in JobIds |-> NoJob]
    /\ hist = [j \in JobIds |-> NoHist]
    /\ rc = HttpIdle
    /\ cl = ClientIdle
    /\ bo = NoWaits
    /\ ScrapeIdle /\ TrackIdle
NextReconnect == (Enqueue(kind_set, MaxSharedJobs) \/ run_sse_loop("A")) /\ ObserveWaits
SpecReconnect == InitReconnect /\ [][NextReconnect]_vars

\* Runs of the scraper, one process at a time, with crashes and restarts.
InitScrape ==
    ScrapeStart /\ LoopIdle /\ rc = HttpIdle /\ cl = ClientIdle /\ bo = NoWaits /\ TrackIdle
NextScrape == main \/ ingest_record \/ run_scrape_next \/ crash \/ restart
SpecScrape == InitScrape /\ [][NextScrape]_vars

\* ProcessorClient.claim_job calls against the backend queue.
\* The tracker alone, driven by any caller: marks of any partition and id in
\* any order, saves that may fail at each step, process death and restart.
MarkArgs ==
    {<<IntNad(1), 1>>, <<StrNad("1"), 1>>, <<StrNad("1"), 2>>, <<IntNad(2), 1>>}
InitProgress ==
    /\ LoopIdle /\ rc = HttpIdle /\ cl = ClientIdle /\ bo = NoWaits /\ ScrapeIdle
    /\ fs = NoFiles /\ pr = ProbeIdle /\ en = EnumIdle
    /\ \E path \in Paths : pt = [TrackerIdle EXCEPT !.path = path, !.pc = "ready"]
MarkCall ==
    \E a \in MarkArgs :
        \/ mark_probed(a[1], a[2])
        \/ mark_hidden(a[1], a[2])
        \/ mark_ingested(a[1], a[2])
NextProgress ==
    /\ \/ MarkCall /\ Size(pt'.data) <= MaxMarks
       \/ save
       \/ save_step(BOOLEAN)
       \/ tracker_crash
       \/ tracker_start
    /\ UNCHANGED <<rc, loopVars, cl, bo, scrapeVars, pr, en>>
SpecProgress == InitProgress /\ [][NextProgress]_vars

\* One partition marked in order, as probe_for_hidden and run_fond_scrape do
\* it: the next new id or a repeated one, with saves that succeed.
InitAutosave ==
    /\ LoopIdle /\ rc = HttpIdle /\ cl = ClientIdle /\ bo = NoWaits /\ ScrapeIdle
    /\ fs = NoFiles /\ pr = ProbeIdle /\ en = EnumIdle
    /\ pt = [TrackerIdle EXCEPT !.path = SomePath, !.pc = "ready"]
NextXids(kind, max) ==
    LET n == Len(pt.data["1"][kind]) IN {x \in {1, n, n + 1} : 1 <= x /\ x <= max}
NextAutosave ==
    /\ \/ \E x \in NextXids("probed_xids", MaxXids) : mark_probed(IntNad(1), x)
       \/ \E x \in NextXids("ingested_xids", MaxIngested) : mark_ingested(IntNad(1), x)
       \/ mark_hidden(IntNad(1), 1)
       \/ save
       \/ save_step({TRUE})
    /\ UNCHANGED <<rc, loopVars, cl, bo, scrapeVars, pr, en>>
SpecAutosave == InitAutosave /\ [][NextAutosave]_vars

\* probe_for_hidden in a new process, with or without a progress file, on
\* the first run or resuming from the checkpoint of an earlier run.
EarlierRun == [NoData EXCEPT !["1"] = [NewEntry EXCEPT !.probed_xids = <<1>>]]
InitProbe ==
    /\ LoopIdle /\ rc = HttpIdle /\ cl = ClientIdle /\ bo = NoWaits /\ ScrapeIdle
    /\ pr = [ProbeIdle EXCEPT !.total = MaxXids] /\ en = EnumIdle
    /\ \E data \in {NoData, EarlierRun} :
          fs = IF data = NoData THEN NoFiles
               ELSE [NoFiles EXCEPT !.target = [state |-> "complete", text |-> json_dump(data)]]
    /\ \E path \in Paths : pt = ProgressTracker(path)
NextProbe == probe_step /\ UNCHANGED <<rc, loopVars, cl, bo, scrapeVars, en>>
SpecProbe == InitProbe /\ [][NextProbe]_vars

\* A fond scrape that is cut off and started again on the same progress
\* file: a few zero-scan records, too few for an autosave.
InitResume ==
    /\ LoopIdle /\ rc = HttpIdle /\ cl = ClientIdle /\ bo = NoWaits /\ ScrapeIdle
    /\ fs = NoFiles
    /\ pr = [ProbeIdle EXCEPT !.total = MaxZeroScan] /\ en = EnumIdle
    /\ \E path \in Paths : pt = ProgressTracker(path)
NextResume ==
    /\ \/ probe_for_hidden \/ probe_skip \/ probe_fails \/ probe_record
       \/ probe_save \/ probe_return
       \/ (save_step(BOOLEAN) /\ UNCHANGED pr)
       \/ fond_restart
    /\ UNCHANGED <<rc, loopVars, cl, bo, scrapeVars, en>>
SpecResume == InitResume /\ [][NextResume]_vars

\* A worker process from its start: embed_worker main calls
\* wait_for_backend(client, JOB_KIND), then run_sse_loop with that one kind.
InitStartup ==
    /\ job_kinds = <<"translate_page">>
    /\ poll_interval = DefaultPollInterval
    /\ wk = [i \in Workers |-> [WorkerInit EXCEPT !.pc = IF i = "A" THEN "startup" ELSE "drain"]]
    /\ jobs = [j \in JobIds |-> NoJob]
    /\ hist = [j \in JobIds |-> NoHist]
    /\ rc = HttpIdle /\ cl = ClientIdle /\ bo = NoWaits /\ ScrapeIdle /\ TrackIdle
NextStartup ==
    (Enqueue(kind_set, MaxJobs) \/ wait_for_backend("A") \/ run_sse_loop("A")) /\ UNCHANGED bo
SpecStartup == InitStartup /\ [][NextStartup]_vars

\* One call of enumerate_all against a site that answers each request in
\* any way.  The function is sequential and each request and sleep ends,
\* so the call always takes its next step.
InitEnumerate ==
    /\ LoopIdle /\ rc = HttpIdle /\ cl = ClientIdle /\ bo = NoWaits /\ ScrapeIdle
    /\ pt = TrackerIdle /\ fs = NoFiles /\ pr = ProbeIdle /\ en = EnumIdle
NextEnumerate ==
    /\ \/ \E raises \in BOOLEAN, total \in 0..MaxTotal, max_items \in 0..MaxItems,
             first \in 0..MaxPage, has_sp \in BOOLEAN, fwd_new \in 0..MaxPage :
             enumerate_all(raises, total, max_items, first, has_sp, fwd_new)
       \/ page_error
       \/ page_expired
       \/ \E new_count \in 0..MaxPage : page_parsed(new_count)
       \/ enumerate_return
    /\ UNCHANGED <<rc, loopVars, cl, bo, scrapeVars, pt, fs, pr>>
SpecEnumerate == InitEnumerate /\ [][NextEnumerate]_vars /\ WF_vars(NextEnumerate)

InitClient == LoopIdle /\ rc = HttpIdle /\ cl = ClientIdle /\ bo = NoWaits /\ ScrapeIdle /\ TrackIdle
NextClient == (Enqueue(AllKinds, MaxJobs) \/ claim_job_call) /\ UNCHANGED bo
SpecClient == InitClient /\ [][NextClient]_vars

\* One ResilientClient.request call.
InitHttp == HttpInit /\ LoopIdle /\ cl = ClientIdle /\ bo = NoWaits /\ ScrapeIdle /\ TrackIdle
NextHttp == request /\ UNCHANGED <<loopVars, others, bo>>
SpecHttp == InitHttp /\ [][NextHttp]_vars

(***************************************************************************)
(* Claims about ResilientClient.request (checked under SpecHttp).          *)
(***************************************************************************)
IsResponse(o) == o.kind = "response"
IsSuccess(o) == IsResponse(o) /\ o.status \in 200..299
\* a 4xx status other than 429
IsClientError(o) == IsResponse(o) /\ o.status \in 400..499 /\ o.status # 429
\* a 5xx status, a 429 status, or a transport/timeout error
IsRetryable(o) ==
    \/ o.kind = "transport"
    \/ IsResponse(o) /\ (o.status \in 500..599 \/ o.status = 429)
BackoffSleeps == {n \in 1..Len(rc.sleeps) : rc.sleeps[n].why = "backoff"}
\* the error an attempt with outcome o raises, as the caller would see it
ErrorOf(o, n) ==
    [kind |-> IF o.kind = "transport" THEN "TransportError" ELSE "HTTPStatusError",
     status |-> o.status, attempt |-> n]

\* C8: a response with a 4xx status other than 429 ends the request at
\* once: no attempt and no backoff sleep follows it, the HTTP status error of
\* that response is raised, and when it is the first response exactly one
\* attempt was made and no backoff sleep at all, whatever max_retries is.
C8_ClientErrorNotRetried ==
    \A n \in 1..Len(rc.responses) :
        IsClientError(rc.responses[n]) =>
            /\ n = Len(rc.responses)
            /\ rc.attempt = n
            /\ rc.pc = "raised"
            /\ rc.raised = ErrorOf(rc.responses[n], n)
            /\ Cardinality(BackoffSleeps) = n - 1
            /\ ~ ENABLED NextHttp

C8_Witness ==
    /\ rc.max_retries = MaxRetries
    /\ Len(rc.responses) = 1
    /\ rc.responses[1] = [kind |-> "response", status |-> 400]
    /\ rc.pc = "raised"

\* C9: at most max_retries attempts are made; a further attempt is made
\* exactly when the previous one failed with 5xx, 429 or a transport error
\* and fewer than max_retries attempts have been made; the first successful
\* response is returned.
C9_BoundedRetry ==
    LET n == Len(rc.responses) IN
    /\ rc.attempt = n
    /\ n <= rc.max_retries
    /\ \A m \in 1..(n - 1) : IsRetryable(rc.responses[m])
    /\ n >= 1 =>
         ((ENABLED (\E o \in Outcomes : request_attempt(o)))
            <=> (IsRetryable(rc.responses[n]) /\ n < rc.max_retries))
    /\ (n >= 1 /\ IsSuccess(rc.responses[n])) =>
         (rc.pc = "returned" /\ rc.result = rc.responses[n].status)
    /\ rc.pc = "returned" => (n >= 1 /\ IsSuccess(rc.responses[n]))

C9_Witness ==
    /\ rc.max_retries = 2
    /\ rc.responses = <<[kind |-> "response", status |-> 500],
                        [kind |-> "response", status |-> 200]>>
    /\ rc.pc = "returned"
    /\ rc.result = 200

\* C10: when all max_retries (>= 1) attempts failed with retryable errors,
\* the error raised is the error of the last attempt, of its own kind,
\* whatever the kinds of the earlier failures.
C10_LastErrorRaised ==
    LET n == Len(rc.responses) IN
    (/\ rc.pc = "raised"
     /\ n >= 1
     /\ n = rc.max_retries
     /\ \A m \in 1..n : IsRetryable(rc.responses[m]))
        => rc.raised = ErrorOf(rc.responses[n], n)

C10_Witness ==
    /\ rc.pc = "raised"
    /\ rc.max_retries = 2
    /\ rc.responses = <<[kind |-> "response", status |-> 503],
                        [kind |-> "transport", status |-> 0]>>
    /\ rc.raised.kind = "TransportError"

\* the sleeps the first n attempts must have made, from the outcomes alone
RECURSIVE SleepSchedule(_)
SleepSchedule(n) ==
    IF n = 0 THEN <<>>
    ELSE LET len == Len(rc.retry_backoff)
             pause == IF rc.delay > 0 THEN <<[why |-> "delay", dur |-> rc.delay]>> ELSE <<>>
             wait == IF IsRetryable(rc.responses[n]) /\ n < rc.max_retries
                     THEN <<[why |-> "backoff",
                             dur |-> rc.retry_backoff[IF n <= len THEN n ELSE len]]>>
                     ELSE <<>>
         IN  SleepSchedule(n - 1) \o pause \o wait

\* C11: the sleeps of a request are, attempt by attempt: the fixed delay
\* (when > 0) before every attempt, retries included, and after a retryable
\* failure of attempt n < max_retries a backoff sleep of
\* retry_backoff[min(n-1, len-1)]; no backoff sleep follows the final
\* attempt, a success or a non-retryable client error.
C11_SleepSchedule ==
    /\ rc.sleeps = SleepSchedule(Len(rc.responses))
    /\ \A k \in BackoffSleeps : rc.sleeps[k].dur \in
            {rc.retry_backoff[m] : m \in 1..Len(rc.retry_backoff)}
    /\ (rc.pc # "loop" /\ Len(rc.responses) > 0) =>
            Cardinality(BackoffSleeps) < Len(rc.responses)

\* three failed attempts with a one-element backoff list and a fixed delay:
\* the second backoff sleep is clamped to the last element
C11_Witness ==
    /\ rc.pc = "raised"
    /\ rc.max_retries = 3
    /\ rc.delay = 2
    /\ rc.retry_backoff = <<2>>
    /\ Len(rc.responses) = 3
    /\ rc.sleeps = <<[why |-> "delay", dur |-> 2], [why |-> "backoff", dur |-> 2],
                     [why |-> "delay", dur |-> 2], [why |-> "backoff", dur |-> 2],
                     [why |-> "delay", dur |-> 2]>>

(***************************************************************************)
(* Claims about ProcessorClient (checked under SpecClient).                *)
(***************************************************************************)
\* C12: claim_job returns None and raises nothing exactly when the response
\* is 204; on a success response with content it returns the job of that
\* content; on any other non-success status it raises the HTTP status error
\* of that response, and nothing else.
C12_ClaimJobResult ==
    cl.pc = "done" =>
        LET o == cl.resp IN
        /\ (cl.ret = None /\ cl.exc = None) <=> (o.kind = "response" /\ o.status = 204)
        /\ (o.kind = "response" /\ o.status \in 200..299 /\ o.body # NoBody) =>
               (cl.ret = o.body /\ cl.exc = None /\ cl.ret.kind = cl.arg)
        /\ (o.kind = "response" /\ o.status \notin 200..299) =>
               (cl.ret = None /\ cl.exc.kind = "HTTPStatusError" /\ cl.exc.status = o.status)
        /\ cl.exc # None => cl.ret = None

\* a 204 after the only job of the kind was handed out by an earlier claim
C12_Witness ==
    /\ cl.pc = "done"
    /\ cl.arg = "translate_page"
    /\ cl.resp.status = 204
    /\ cl.ret = None /\ cl.exc = None
    /\ \E j \in JobIds : jobs[j] = [kind |-> "translate_page", status |-> "claimed"]

(***************************************************************************)
(* Claims about drain_jobs and run_sse_loop.                               *)
(***************************************************************************)
Holders(j) == {i \in Workers : wk[i].job = j}

\* C1: whenever the handler raised on a job, the next step of the worker
\* (short of an interrupt) calls fail_job for that job with the error text
\* cut to 500 characters and, whether or not that request raises, goes back
\* to claim_job for the same kind; a pass returns only after the last kind's
\* claim_job returned None; and no exception of the handler or of fail_job
\* leaves drain_jobs: only claim_job's own errors do.
C1_FailStep(i) ==
    (wk[i].pc = "fail" /\ wk'[i] # wk[i]) =>
        \/ wk'[i].exit = "KeyboardInterrupt"
        \/ /\ hist'[wk[i].job].fails = hist[wk[i].job].fails + 1
           /\ wk'[i].sent = Min(wk[i].err, 500)
           /\ wk'[i].pc = "claim"
           /\ wk'[i].kidx = wk[i].kidx

C1_State(i) ==
    /\ \A j \in JobIds :
          hist[j].by = {i} =>
             \/ hist[j].fails = hist[j].raised
             \/ wk[i].pc = "fail" /\ wk[i].job = j /\ hist[j].fails + 1 = hist[j].raised
             \/ wk[i].exit = "KeyboardInterrupt" /\ wk[i].cause = "fail"
    /\ wk[i].returned =>
          (wk[i].kidx = Len(job_kinds) /\ wk[i].pass.claims = wk[i].pass.jobs + Len(job_kinds))
    /\ wk[i].exit = "Exception" => wk[i].cause = "claim"

C1_FailureIsolation ==
    /\ [][\A i \in Workers : C1_FailStep(i)]_vars
    /\ [](\A i \in Workers : C1_State(i))

\* fail_job itself raised on a long error text, and the worker is back at
\* claim_job for the second kind of its list.
C1_Witness ==
    /\ wk["A"].pc = "claim"
    /\ wk["A"].kidx = 2
    /\ wk["A"].sent = 500
    /\ wk["A"].surfaced > 0
    /\ \E j \in JobIds : hist[j].raised = 1 /\ hist[j].fails = 1

\* C2: exactly one terminal report per claimed job: complete_job and
\* fail_job are never both issued for a job, and once the worker has gone on
\* to the next claim one of them has been issued.
C2_OneTerminalReport ==
    \A j \in JobIds :
        /\ hist[j].completes + hist[j].fails <= 1
        /\ (hist[j].by # {} /\ Holders(j) = {} /\ \A i \in hist[j].by : wk[i].pc # "exited")
              => hist[j].completes + hist[j].fails = 1

\* C3: run_sse_loop is never left with an error; it exits on cancellation only.
C3_NeverExitsOnError ==
    \A i \in Workers : wk[i].exit # "Exception"

\* C4: when drain_jobs returns, the handler was invoked once per claimed
\* job, claim_job was called once per job plus once (None) per kind, and the
\* value returned is the number of handler calls that did not raise.
C4_DrainCounts ==
    \A i \in Workers :
        wk[i].returned =>
            /\ wk[i].pass.calls = wk[i].pass.jobs
            /\ wk[i].pass.claims = wk[i].pass.jobs + Len(job_kinds)
            /\ wk[i].ret = wk[i].pass.ok
            /\ \A j \in JobIds : hist[j].by = {i} => hist[j].calls = 1

\* a pass over two kinds that claimed two jobs, one of which failed
C4_Witness ==
    /\ wk["A"].returned
    /\ Len(job_kinds) = 2
    /\ wk["A"].pass.jobs = 2
    /\ wk["A"].pass.claims = 4
    /\ wk["A"].ret = 1

\* C5: every pending job of a tracked kind is eventually claimed.
C5_EventuallyClaimed ==
    \A j \in JobIds :
        (jobs[j].status = "pending" /\ jobs[j].kind \in kind_set)
            ~> (jobs[j].status # "pending")

\* C6: with two workers and an atomic claim, each job's handler is invoked
\* by at most one worker and at most once, and a job is held by at most one
\* worker at a time; a step changes the state of one worker only.
C6_State ==
    \A j \in JobIds :
        /\ hist[j].calls <= 1
        /\ Cardinality(hist[j].by) <= 1
        /\ Cardinality(Holders(j)) <= 1

C6_ExclusiveHandling ==
    /\ []C6_State
    /\ [][\A i, k \in Workers : (wk'[i] # wk[i] /\ wk'[k] # wk[k]) => i = k]_vars

\* worker A drew None from claim_job while worker B was handling job 1
C6_Witness ==
    /\ wk["B"].pc = "work"
    /\ wk["B"].job = 1
    /\ wk["A"].returned
    /\ wk["A"].pass.claims = 1
    /\ wk["A"].pass.jobs = 0

\* C7: an error of claim_job, complete_job or fail_job reaches the caller
\* only after the maximum number of attempts of the retry policy.
C7_SurfacedAfterRetries ==
    \A i \in Workers : wk[i].surfaced # 0 => wk[i].surfaced = DEFAULT_MAX_RETRIES

(***************************************************************************)
(* Claims about the reconnect backoff (checked under SpecReconnect).       *)
(***************************************************************************)
RECURSIVE Pow2(_)
Pow2(n) == IF n <= 0 THEN 1 ELSE 2 * Pow2(n - 1)

\* C13: the k-th consecutive reconnect wait without a successful connection
\* in between lasts min(2^(k-1), poll_interval): 1, 2, 4, 8, ... up to a
\* ceiling of poll_interval.
C13_WaitsDouble ==
    wk["A"].slept # 0 => wk["A"].slept = Min(Pow2(bo.waits - 1), poll_interval)

\* C14: a successful connection resets the backoff, however many reconnect
\* attempts failed before it: while connected reconnect_delay is 1, and the
\* first wait after the connection is 1.
C14_ConnectResets ==
    /\ wk["A"].pc = "wait" => wk["A"].reconnect_delay = 1
    /\ (wk["A"].slept # 0 /\ bo.waits = 1) => wk["A"].slept = 1

\* three waits, then a connection, then a failure: the wait is 1 again
C14_Witness ==
    /\ bo.before = 3
    /\ bo.waits = 1
    /\ wk["A"].slept = 1

(***************************************************************************)
(* Claims about cancellation (checked under Spec).                         *)
(***************************************************************************)
\* C15: an interrupt that arrives during the subscription wait, a backoff
\* sleep or a drain pass leaves run_sse_loop as KeyboardInterrupt in that
\* very step, and a loop that was left takes no further step.
C15_CancelPropagates ==
    /\ [][\A i \in Workers :
            cancel(i) => (wk'[i].pc = "exited" /\ wk'[i].exit = "KeyboardInterrupt")]_vars
    /\ [](\A i \in Workers : wk[i].pc = "exited" => ~ ENABLED run_sse_loop(i))

\* the interrupt arrived during the backoff sleep
C15_Witness ==
    /\ wk["A"].pc = "exited"
    /\ wk["A"].exit = "KeyboardInterrupt"
    /\ wk["A"].cause = "sleep"

\* C16: whenever an interrupt ends run_sse_loop, "processed %d jobs" was
\* logged on the way out, wherever the interrupt arrived.
C16_CountLoggedOnCancel ==
    \A i \in Workers : wk[i].exit = "KeyboardInterrupt" => wk[i].logged

(***************************************************************************)
(* Claims about the scraper's resume logic (checked under SpecScrape).     *)
(***************************************************************************)
InAttempt == sr.pc \notin {"start", "gate", "crashed", "finished"}
Issued(op) == {k \in 1..Len(sr.calls) : sr.calls[k].op = op}
Deleted == {k \in Issued("delete_record") : sr.calls[k].ok}

\* C17: an item whose cached status is present and not "ingesting" makes
\* ingest_record return "skipped" with no request to the site or the backend
\* and no change of known_statuses, and run_scrape counts it as skipped only.
C17_GateStep ==
    (/\ sr.pc = "gate"
     /\ known_statuses[xid] \notin {NoStatus, "ingesting"}
     /\ sr'.pc # "crashed"
     /\ sr' # sr)
        => /\ sr'.result = "skipped"
           /\ sr'.calls = NoCalls
           /\ known_statuses' = known_statuses
           /\ records' = records
           /\ sr'.skipped = sr.skipped + 1
           /\ sr'.failed = sr.failed
           /\ sr'.success = sr.success

C17_SkipDone ==
    /\ [][C17_GateStep]_vars
    /\ [](sr.result = "skipped" =>
            (sr.calls = NoCalls /\ known_statuses[xid] = sr.cached
               /\ sr.cached \notin {NoStatus, "ingesting"}))

\* the second occurrence of X is skipped after the first was ingested
C17_Witness ==
    /\ sr.list = <<"X", "X">>
    /\ sr.i = 2
    /\ sr.result = "skipped"
    /\ sr.success = 1
    /\ sr.skipped = 1
    /\ sr.failed = 0

\* C18: with cached status "ingesting" and a lookup that returned record
\* id r: create_record is issued only after delete_record(r) returned; from
\* that delete until the attempt completes the item is absent from
\* known_statuses; and when delete_record raises the attempt issues no
\* create_record.
C18_DeleteBeforeCreate ==
    (InAttempt /\ sr.cached = "ingesting" /\ sr.looked # 0) =>
        /\ records[sr.looked].src = xid
        /\ \A k \in Issued("create_record") :
              \E m \in Deleted : m < k /\ sr.calls[m].arg = sr.looked
        /\ (Deleted # {} /\ sr.result # "ok") => known_statuses[xid] = NoStatus
        /\ (Issued("delete_record") \ Deleted # {}) =>
              (Issued("create_record") = {} /\ sr.result = "raised")

\* the interrupted record 1 of X was deleted and record 2 created and completed
C18_Witness ==
    /\ InAttempt
    /\ sr.cached = "ingesting"
    /\ sr.looked = 1
    /\ sr.result = "ok"
    /\ Deleted # {}
    /\ Issued("create_record") # {}
    /\ records[1].status = "deleted"
    /\ records[2] = [src |-> xid, status |-> "ocr_pending"]

\* C19: with cached status "ingesting", whatever get_status returns,
\* create_record is never reached unless delete_record was issued before it
\* and the item was removed from known_statuses.
C19_NoCreateWithoutDelete ==
    (InAttempt /\ sr.cached = "ingesting") =>
        \A k \in Issued("create_record") :
            /\ \E m \in Deleted : m < k
            /\ sr.result # "ok" => known_statuses[xid] = NoStatus

MarkOps == {"mark_probed", "mark_hidden", "mark_ingested"}
KindOf(op) ==
    CASE op = "mark_probed" -> "probed_xids"
      [] op = "mark_hidden" -> "hidden_xids"
      [] op = "mark_ingested" -> "ingested_xids"
Count(seq, x) == Cardinality({k \in 1..Len(seq) : seq[k] = x})
\* the query that corresponds to a mark
Query(t, op, nad, x) ==
    CASE op = "mark_probed" -> is_probed(t, nad, x)
      [] op = "mark_hidden" -> x \in Range(get_hidden_xids(t, nad))
      [] op = "mark_ingested" -> is_ingested(t, nad, x)
Configured == pt.path # None /\ pt.pc \in {"ready", "open", "write", "replace"}
\* the step is a call of a mark
MarkStep == pt.pc = "ready" /\ pt'.pc \in {"ready", "open"} /\ pt'.last.op \in MarkOps

\* C21: with a path configured, after a mark (the first or a repeated one) the
\* corresponding query reports the id and the id occurs exactly once in the
\* stored list; no stored list ever holds an id twice; and a mark of an id
\* that is already marked changes neither the stored data, the mutation
\* counter nor the files, and starts no save.
C21_Marked ==
    Configured =>
        /\ pt.last.op \in MarkOps =>
              /\ Query(pt, pt.last.op, pt.last.nad, pt.last.xid)
              /\ Count(pt.data[str(pt.last.nad)][KindOf(pt.last.op)], pt.last.xid) = 1
        /\ \A p \in Partitions, k \in Kinds :
              \A n \in Range(pt.data[p][k]) : Count(pt.data[p][k], n) = 1
C21_Repeat ==
    (MarkStep /\ pt.path # None
        /\ Query(pt, pt'.last.op, pt'.last.nad, pt'.last.xid)) =>
            /\ pt'.data = pt.data
            /\ pt'.dirty = pt.dirty
            /\ pt'.pc = "ready"
            /\ fs' = fs
C21_MarkIdempotent == []C21_Marked /\ [][C21_Repeat]_vars
\* a probed mark that was not counted: the id was marked before
C21_Witness ==
    /\ Configured /\ pt.last.op = "mark_probed" /\ pt.dirty = 0
    /\ is_probed(pt, pt.last.nad, pt.last.xid)

(***************************************************************************)
(* Autosave (SpecAutosave)                                                 *)
(***************************************************************************)
\* what a new process would load from the checkpoint as it is now
OnFile == IF fs.target.state = "absent" THEN NoData ELSE json_load(fs.target.text)
\* ids of a counted kind that are marked in memory and not in the file
Unsaved(kind) ==
    LET n(p) == Cardinality(Range(pt.data[p][kind]) \ Range(OnFile[p][kind]))
    IN  n("1") + n("2")
C22_Counter ==
    (Configured /\ pt.pc = "ready") =>
        /\ pt.dirty = Unsaved("probed_xids") + Unsaved("ingested_xids")
        /\ 0 <= pt.dirty /\ pt.dirty < _AUTOSAVE_INTERVAL
C22_Step ==
    /\ (MarkStep /\ (pt'.last.op = "mark_hidden"
                        \/ Query(pt, pt'.last.op, pt'.last.nad, pt'.last.xid)))
          => pt'.dirty = pt.dirty /\ pt'.pc = "ready"
    /\ (MarkStep /\ pt'.last.op # "mark_hidden"
                 /\ ~Query(pt, pt'.last.op, pt'.last.nad, pt'.last.xid))
          => /\ pt'.dirty = pt.dirty + 1
             /\ pt'.pc = "open" <=> pt'.dirty = _AUTOSAVE_INTERVAL
    /\ (pt.pc = "replace" /\ pt'.pc = "ready")
          => pt'.dirty = 0 /\ pt'.saved /\ fs'.target.text = json_dump(pt.data)

\* C22: with a path and saves that succeed, after every operation the
\* mutation counter is the number of probed and ingested ids marked since the
\* last save (those in memory and not in the file) and lies in 0..49; a
\* repeated mark and a hidden mark leave it unchanged, a new probed or
\* ingested mark adds one, and the mark that brings it to 50 runs save(),
\* which writes the data and resets it to 0.
C22_AutosaveCounter == []C22_Counter /\ [][C22_Step]_vars
\* the fiftieth new mark has just autosaved
C22_Witness ==
    /\ pt.pc = "ready" /\ pt.saved /\ pt.last.op = "mark_probed" /\ pt.dirty = 0
    /\ Len(pt.data["1"].probed_xids) + Len(pt.data["1"].ingested_xids) >= _AUTOSAVE_INTERVAL

(***************************************************************************)
(* The checkpoint file (SpecProgress)                                      *)
(***************************************************************************)
C23_Files ==
    /\ fs.target.state # "partial"
    /\ (pt.path # None /\ pt.saved) => fs.tmp.state = "absent"
C23_Step ==
    /\ fs'.target # fs.target =>
          /\ pt.pc = "replace"
          /\ fs'.target = [state |-> "complete", text |-> json_dump(pt.data)]
    /\ pt'.pc = "down" => fs' = fs

\* C23: the checkpoint never holds partial content: it changes only in the
\* rename, from the complete previous state to the complete state being
\* saved, and a crash at any point of save() leaves the files as they are;
\* after a save() that returned there is no .tmp file.
C23_AtomicSave == []C23_Files /\ [][C23_Step]_vars
\* the process died while the temporary file was being written, with an
\* earlier checkpoint in place
C23_Witness ==
    /\ pt.pc = "down" /\ fs.tmp.state = "partial"
    /\ fs.target.state = "complete" /\ fs.target.text # {}

Same(t, u) ==
    \A a \in MarkArgs :
        /\ is_probed(t, a[1], a[2]) = is_probed(u, a[1], a[2])
        /\ is_ingested(t, a[1], a[2]) = is_ingested(u, a[1], a[2])
        /\ get_hidden_xids(t, a[1]) = get_hidden_xids(u, a[1])
\* C25: after a save() that returned, a tracker constructed on the same path
\* answers is_probed, is_ingested and get_hidden_xids as the saved tracker
\* does, and the int and the str form of a partition key get the same answers.
C25_ReloadEqualsSaved ==
    (Configured /\ pt.saved) =>
        LET new == ProgressTracker(pt.path) IN
        /\ new.pc = "ready"
        /\ Same(new, pt)
        /\ \A x \in {1, 2} :
              /\ is_probed(new, IntNad(1), x) = is_probed(pt, StrNad("1"), x)
              /\ is_ingested(new, IntNad(1), x) = is_ingested(pt, StrNad("1"), x)
              /\ get_hidden_xids(new, IntNad(1)) = get_hidden_xids(pt, StrNad("1"))
C25_Witness ==
    /\ Configured /\ pt.saved /\ pt.last.op = "save"
    /\ is_probed(pt, StrNad("1"), 1)
    /\ get_hidden_xids(pt, IntNad(2)) # <<>>

\* C26: a mark changes no answer of is_probed, is_ingested or
\* get_hidden_xids for a partition other than the marked one, and changes
\* the set of no kind other than the marked one in any partition.
C26_Independent ==
    [][MarkStep =>
        /\ \A a \in MarkArgs :
              str(a[1]) # str(pt'.last.nad) =>
                  /\ is_probed(pt', a[1], a[2]) = is_probed(pt, a[1], a[2])
                  /\ is_ingested(pt', a[1], a[2]) = is_ingested(pt, a[1], a[2])
                  /\ get_hidden_xids(pt', a[1]) = get_hidden_xids(pt, a[1])
        /\ \A p \in Partitions, k \in Kinds \ {KindOf(pt'.last.op)} :
              Range(pt'.data[p][k]) = Range(pt.data[p][k])]_vars
\* partition 2 was just marked hidden while partition 1 holds a probed id
C26_Witness ==
    /\ Configured /\ pt.last.op = "mark_hidden" /\ str(pt.last.nad) = "2"
    /\ get_hidden_xids(pt, IntNad(2)) = <<1>>
    /\ is_probed(pt, IntNad(1), 1) /\ get_hidden_xids(pt, IntNad(1)) = <<>>

\* C27: without a path, whatever was called, is_probed and is_ingested
\* answer false for every partition and id, get_hidden_xids answers the empty
\* list, save() never gets to open a file and no file exists.
C27_NoPathNoOp ==
    (pt.path = None /\ pt.pc # "none") =>
        /\ \A a \in MarkArgs :
              /\ ~is_probed(pt, a[1], a[2])
              /\ ~is_ingested(pt, a[1], a[2])
              /\ get_hidden_xids(pt, a[1]) = <<>>
        /\ pt.pc \in {"ready", "down"}
        /\ fs = NoFiles
C27_Witness == pt.path = None /\ pt.pc = "ready" /\ pt.last.op = "mark_hidden"

C28_TimeoutIsTick == wk["A"].pc = "sleep" => wk["A"].cause # "timeout"

\* C29: after a subscription failure the worker drains once at the call in
\* the handler, does not subscribe before the sleep is over, sleeps the
\* backoff as it is when the sleep begins and then doubles it up to
\* poll_interval (checked under SpecReconnect).
C29_FailureBacksOff ==
    /\ wk["A"].pc = "sleep" => wk["A"].returned /\ wk["A"].site = "except"
    /\ wk["A"].site = "except" => wk["A"].pc \notin {"subscribe", "wait"}
    /\ wk["A"].slept # 0 =>
          /\ wk["A"].slept = bo.delay
          /\ wk["A"].reconnect_delay = Min(2 * bo.delay, poll_interval)

\* C30: the worker begins at drain_jobs (WorkerInit), and whenever it is about to
\* open the subscription, drain_jobs has just returned at the top of the
\* loop from a pass in which the last claim_job of every configured kind
\* returned None; an open subscription has a read timeout of poll_interval.
C30_DrainThenSubscribe ==
    LET w == wk["A"] IN
    /\ w.pc = "subscribe" =>
          /\ w.returned /\ w.site = "top"
          /\ w.kidx = Len(job_kinds)
          /\ w.pass.claims = w.pass.jobs + Len(job_kinds)
          /\ w.ret = w.count /\ w.count = w.pass.ok
    /\ (w.pc = "wait" \/ (w.site = "event" /\ w.pc # "exited")) => w.read_timeout = poll_interval
\* connected after a drain pass over two kinds that handled a job
C30_Witness ==
    /\ wk["A"].pc = "wait" /\ wk["A"].read_timeout = poll_interval
    /\ Len(job_kinds) = 2 /\ wk["A"].jobs_processed > 0

FullPass(w) ==
    /\ w.returned
    /\ w.kidx = Len(job_kinds)
    /\ w.pass.claims = w.pass.jobs + Len(job_kinds)

\* C31: while connected, only a "job" event of a tracked kind starts a drain
\* pass, and the next event is read only after that pass has claimed every
\* kind until None; after any other event the worker is still waiting and
\* has issued no claim_job.
C31_EventDrains ==
    LET w == wk["A"] IN
    /\ (w.pc = "drain" /\ w.site = "event" /\ w.event # NoEvent) =>
          w.event.event = "job" /\ w.event.kind \in kind_set
    /\ (w.pc = "wait" /\ w.event # NoEvent) =>
          /\ ~(w.event.event = "job" /\ w.event.kind \in kind_set)
          /\ w.pass = NoPass /\ ~w.returned
    /\ (w.pc = "wait" /\ w.returned) => w.site = "event" /\ FullPass(w)
    /\ (w.site = "event" /\ w.pc \in {"claim", "work", "complete", "fail"}) =>
          w.event = NoEvent
\* back at the stream after a pass, started by an event, that handled a job
C31_Witness ==
    /\ wk["A"].pc = "wait" /\ wk["A"].returned /\ wk["A"].site = "event"
    /\ wk["A"].pass.jobs >= 1

C32_State ==
    LET w == wk["A"] IN
    /\ w.job # 0 => jobs[w.job].kind = job_kinds[w.kidx]
    /\ w.pc = "claim" => w.job = 0
C32_Step ==
    LET w == wk["A"]
        n == wk'["A"]
    IN  /\ (n.kidx # w.kidx /\ n.kidx # 1) =>
              /\ n.kidx = w.kidx + 1
              /\ w.pc = "claim" /\ n.pc = "claim"
              /\ Pending(job_kinds[w.kidx]) = {}
        /\ (w.job = 0 /\ n.job # 0) =>
              /\ w.pc = "claim" /\ n.pc = "work" /\ n.kidx = w.kidx
              /\ n.job = FirstPending(job_kinds[w.kidx])
        /\ (w.job # 0 /\ n.job # w.job) => n.job = 0

\* C32: within a drain pass the kind index moves only from a kind to the
\* next one of the list, and only when claim_job for the current kind
\* returned None; every job in hand is of the current kind; a job is claimed
\* only when no job is in hand, so jobs are handled one after the other in
\* the order claim_job returned them.
C32_KindOrder == []C32_State /\ [][C32_Step]_vars
\* the second kind's job is in hand after the first kind's job was handled
C32_Witness ==
    /\ wk["A"].kidx = 2 /\ wk["A"].pc = "work" /\ wk["A"].pass.jobs = 2
    /\ wk["A"].pass.claims = 3

(***************************************************************************)
(* The cache of known statuses and run_scrape (SpecScrape)                 *)
(***************************************************************************)
LastCall(s) == s.calls[Len(s.calls)]
\* C33: within a session known_statuses[id] becomes "ocr_pending" only in
\* the step in which complete_ingest for the record just created for that id
\* returned; a step in which the ingestion of an item raises leaves the item
\* not marked done; and an item that is marked done when ingest_record
\* looks at it is skipped.
C33_DoneAfterComplete ==
    [][/\ \A x \in SourceIds :
             (sr.pc \notin {"start", "crashed", "finished"}
                 /\ known_statuses'[x] = "ocr_pending" /\ known_statuses[x] # "ocr_pending") =>
                  /\ sr.pc = "complete" /\ x = xid
                  /\ sr'.result = "ok"
                  /\ LastCall(sr') = Call("complete_ingest", sr.record_id, TRUE)
                  /\ records[sr.record_id].src = x
                  /\ records'[sr.record_id].status = "ocr_pending"
       /\ (sr.pc \in {"get_status", "delete", "detail", "create", "upload", "complete"}
              /\ sr'.result = "raised") => known_statuses'[xid] # "ocr_pending"
       /\ (sr.pc = "gate" /\ ~sr.dry_run /\ known_statuses[xid] = "ocr_pending") =>
              sr'.result = "skipped" \/ sr'.pc = "crashed"]_vars
\* the second occurrence of X is skipped after the first was completed in
\* this session
C33_Witness ==
    /\ sr.list = <<"X", "X">> /\ sr.i = 2 /\ sr.restarts = 0
    /\ sr.success = 1 /\ sr.result = "skipped" /\ sr.cached = "ocr_pending"

Tallied == sr.success + sr.failed + sr.skipped
InItem == sr.pc \in {"gate", "get_status", "delete", "detail", "create", "upload", "complete"}
C38_State ==
    /\ InItem => 1 <= sr.i /\ sr.i <= Len(sr.list) /\ Tallied = sr.i - 1
    /\ sr.pc = "heartbeat" => Tallied = sr.i
    /\ sr.pc = "finished" => sr.i = Len(sr.list) /\ Tallied = Len(sr.list)
C38_Step ==
    /\ (sr'.i # sr.i /\ sr'.i > 1) => sr.pc = "heartbeat" /\ sr'.i = sr.i + 1
    /\ (InItem /\ sr'.result = "raised") =>
          /\ sr'.failed = sr.failed + 1 /\ sr'.success = sr.success /\ sr'.skipped = sr.skipped
          /\ sr'.pc = "heartbeat" /\ sr'.i = sr.i
    /\ (InItem /\ sr'.pc \notin {"crashed", "heartbeat"}) =>
          sr'.i = sr.i /\ InItem' /\ sr'.success + sr'.failed + sr'.skipped = Tallied

\* C38: run_scrape goes through the input list one position at a time, in
\* order; each position is counted once, as success, failed or skipped; an
\* exception of ingest_record counts the record as failed and the loop goes
\* on; when run_scrape returns, success + failed + skipped is the length of
\* the list.
C38_EveryRecordOnce == []C38_State /\ [][C38_Step]_vars
\* returned after one record of each outcome
C38_Witness ==
    /\ sr.pc = "finished" /\ Len(sr.list) = 3
    /\ sr.success = 1 /\ sr.failed = 1 /\ sr.skipped = 1

(***************************************************************************)
(* Probing and resuming a fond scrape (SpecResume)                         *)
(***************************************************************************)
\* C34: a permalink page is requested only for an id that is not marked
\* probed, and every unmarked id whose turn comes is requested, in the first
\* run and in a later one; an id becomes marked probed only in a step whose
\* request and parsing succeeded; a step whose probe raised leaves the id
\* unmarked and goes on with the next record.
C34_ProbeMarks ==
    [][/\ (pr' # pr /\ pr'.req # 0) =>
              pr.pc = "loop" /\ pr'.req = pr.i /\ ~is_probed(pt, ProbeNad, pr.i)
       /\ (pr' # pr /\ pr'.runs = pr.runs /\ pr.pc = "loop" /\ pr.i <= pr.total
              /\ ~is_probed(pt, ProbeNad, pr.i)) => pr'.req = pr.i
       /\ \A x \in 1..pr.total :
             (~is_probed(pt, ProbeNad, x) /\ is_probed(pt', ProbeNad, x)) =>
                 pr'.req = x /\ pr'.errors = pr.errors
       /\ pr'.errors = pr.errors + 1 =>
             /\ pr'.req = pr.i /\ ~is_probed(pt', ProbeNad, pr.i)
             /\ pr'.pc = "loop" /\ pr'.i = pr.i + 1]_vars
\* the second run requests id 2, which the checkpoint of the first run does
\* not hold, while id 3 is already marked
C34_Witness ==
    /\ pr.runs = 1 /\ pr.req = 2 /\ pr.i = 3
    /\ is_probed(pt, ProbeNad, 2) /\ is_probed(pt, ProbeNad, 3)

\* C36: when probe_for_hidden has returned in a run on an existing
\* checkpoint, every id the checkpoint records as hidden is in the list that
\* run_fond_scrape goes on to ingest.
C36_HiddenKeptOnResume ==
    pr.pc = "returned" =>
        \A x \in Range(get_hidden_xids(pt, ProbeNad)) : x \in Range(pr.all_to_ingest)

(***************************************************************************)
(* The start of a worker (SpecStartup)                                     *)
(***************************************************************************)
\* C35: a job that is claimed at the backend and has neither been handed to
\* the handler nor been reported with fail_job is the job the running worker
\* has in hand, about to be handed to the handler: the probe of
\* wait_for_backend leaves no claimed job behind.
C35_ProbeConsumesNoWork ==
    \A j \in JobIds :
        (jobs[j].status = "claimed" /\ hist[j].calls = 0 /\ hist[j].fails = 0
            /\ wk["A"].pc # "exited") => wk["A"].job = j

(***************************************************************************)
(* Cancellation while a job is handled (Spec)                              *)
(***************************************************************************)
C37_State ==
    (wk["A"].pc = "exited" /\ wk["A"].exit = "KeyboardInterrupt" /\ wk["A"].cause = "work") =>
        \E j \in JobIds :
            /\ jobs[j].status = "claimed"
            /\ hist[j].calls = 0 /\ hist[j].completes = 0 /\ hist[j].fails = 0
C37_Step ==
    LET w == wk["A"]
        n == wk'["A"]
    IN  /\ (w.pc \in {"work", "complete"} /\ n # w) =>
              \/ hist'[w.job] # hist[w.job]
              \/ /\ n.pc = "exited" /\ n.exit = "KeyboardInterrupt"
                 /\ jobs' = jobs /\ hist' = hist
                 /\ jobs[w.job].status = "claimed"
        /\ w.pc = "exited" => (n = w /\ hist' = hist)

\* C37: while the handler has a claimed job, the worker either takes a step
\* of the handler or, on cancellation, leaves at once with
\* KeyboardInterrupt: that step issues no complete_job and no fail_job and
\* the job is claimed at the backend; a worker that has left issues nothing
\* more, so the job stays claimed.
C37_CancelInHandler == []C37_State /\ [][C37_Step]_vars
\* cancelled before the handler did anything with the job
C37_Witness ==
    /\ wk["A"].pc = "exited" /\ wk["A"].exit = "KeyboardInterrupt" /\ wk["A"].cause = "work"
    /\ jobs[1].status = "claimed" /\ hist[1].calls = 0 /\ hist[1].fails = 0

\* C39: enumerate_all terminates whatever the site answers.  Each
\* iteration of the pagination loop either appends at least one new id
\* (only while the list is shorter than the effective cap, and the retry
\* counter restarts) or counts one retry; the loop is left once the cap is
\* reached, and it is no longer running after more than 2 consecutive pages
\* without new ids or more than 3 consecutive errors or lost sessions.
Ended == en.pc \in {"returned", "raised"}
C39_State ==
    en.pc = "while" => en.empty <= EmptyLimit /\ en.errs <= ErrorLimit /\ en.retries <= ErrorLimit
C39_Step ==
    en.pc = "while" /\ en' # en =>
        IF en.all_results >= en.effective_cap
        THEN en'.pc = "returned" /\ en'.all_results = en.all_results
        ELSE \/ en'.all_results > en.all_results /\ en'.retries = 0
             \/ en'.all_results = en.all_results /\ en'.retries = en.retries + 1
C39_EnumerateTerminates == []C39_State /\ [][C39_Step]_vars /\ <>Ended
C39_Witness ==
    /\ en.pc = "returned" /\ en.empty > EmptyLimit
    /\ en.all_results < en.effective_cap /\ en.row > en.page_size + 1

\* C40: for every max_retries, 0 included, a finished request has made at
\* least one attempt, and what it raises is the HTTP status error or the
\* transport error of one of its own attempts.
C40_AttemptOrOwnError ==
    rc.pc \in {"returned", "raised"} =>
        /\ rc.attempt >= 1
        /\ Len(rc.responses) >= 1
        /\ rc.pc = "raised" =>
              /\ rc.raised.kind \in {"HTTPStatusError", "TransportError"}
              /\ rc.raised.attempt \in 1..rc.attempt

====
